---- MODULE Spec2Model ----
(***************************************************************************)
(* Analytics core of the AIRE learner scorecard (app.py).                  *)
(*                                                                         *)
(* A learner subset is a sequence of event rows in file order.  Each       *)
(* analytics function is an operator over such a sequence, written after   *)
(* the pandas calls the source makes.  Scores are integers in hundredths   *)
(* of a score point (400 = 4.0, 367 = 3.67), the two decimals build_event  *)
(* rounds to; means are reduced fractions.  Where a result turns on a      *)
(* float comparison against the mean, the scores enumerated are multiples  *)
(* of half a point, for which the float comparison is exact.               *)
(* A missing cell of a label column is the string "NaN".                   *)
(***************************************************************************)
EXTENDS Integers, Sequences, FiniteSets, TLC

VARIABLES df, out

vars == <<df, out>>

\* ---------------------------------------------------------------- bounds
MaxRows == 3
MaxTs == 3
MaxBounceRows == 4
MaxTarget == 4
MaxStdRows == 5
MaxLearners == 2
MaxSeedLearners == 1
MaxOutsideDraws == 1

\* ------------------------------------------------------- column domains
NaNLabel == "NaN"

\* All labels of the model, in Python's string order (uppercase first).
LexOrder == <<"Clarity", "Context", "L-001", "L-002", "NaN", "R-01", "R-02", "general-review", "rec-01", "rec-02">>

LexRank(s) == CHOOSE k \in 1..Len(LexOrder) : LexOrder[k] = s

LexLess(a, b) == LexRank(a) < LexRank(b)

isna(x) == x = NaNLabel

\* ------------------------------------------------------ numeric results
\* A float result: a reduced fraction, NaN (mean of nothing) or None.
RECURSIVE GCD(_, _)
GCD(a, b) == IF b = 0 THEN a ELSE GCD(b, a % b)

Abs(n) == IF n < 0 THEN -n ELSE n

Frac(n, d) ==
    LET g == GCD(Abs(n), d)
    IN  [k |-> "num", num |-> n \div g, den |-> d \div g]

NaN == [k |-> "nan", num |-> 0, den |-> 1]

None == [k |-> "none", num |-> 0, den |-> 1]

IsNum(x) == x.k = "num"

FracLess(a, b) == a.num * b.den < b.num * a.den

FracSub(a, b) == Frac(a.num * b.den - b.num * a.den, a.den * b.den)

\* ------------------------------------------------------- column helpers
Column(d, c) == [i \in 1..Len(d) |-> d[i][c]]

RECURSIVE SeqSum(_)
SeqSum(s) == IF s = <<>> THEN 0 ELSE s[1] + SeqSum(Tail(s))

\* Series.sum() of an integer column
series_sum(s) == SeqSum(s)

\* Series.mean(): NaN for an empty series
series_mean(s) == IF s = <<>> THEN NaN ELSE Frac(SeqSum(s), Len(s))

\* Series.nunique(): distinct values, missing cells dropped
series_nunique(s) == Cardinality({s[i] : i \in 1..Len(s)} \ {NaNLabel})

\* ------------------------------------------------------ learner_summary
learner_summary_total_first(d) ==
    [events |-> Len(d),
     resources |-> series_nunique(Column(d, "resource_id")),
     avg_score |-> series_mean(Column(d, "evaluation_score")),
     total_chars |-> IF d = <<>> THEN 0 ELSE d[1].user_prompt_character_count]

learner_summary(d) ==
    [events |-> Len(d),
     resources |-> series_nunique(Column(d, "resource_id")),
     avg_score |-> series_mean(Column(d, "evaluation_score")),
     total_chars |-> series_sum(Column(d, "user_prompt_character_count"))]

\* ---------------------------------------------------- get_recommendations
InSeq(x, s) == \E i \in 1..Len(s) : s[i] = x

CountOf(s, v) == Cardinality({i \in 1..Len(s) : s[i] = v})

\* The distinct non-missing values of a series, in order of first appearance
\* (the key order of the hash table behind value_counts).
RECURSIVE UniquesUpTo(_, _)
UniquesUpTo(s, n) ==
    IF n = 0 THEN <<>>
    ELSE LET p == UniquesUpTo(s, n - 1)
         IN  IF isna(s[n]) \/ InSeq(s[n], p) THEN p ELSE Append(p, s[n])

\* Insert entry e into a sequence sorted by descending count, after every
\* entry whose count is not smaller: ties keep their earlier order.
RECURSIVE InsertByCount(_, _)
InsertByCount(sorted, e) ==
    IF sorted = <<>> THEN <<e>>
    ELSE IF sorted[1].count >= e.count
         THEN <<sorted[1]>> \o InsertByCount(Tail(sorted), e)
         ELSE <<e>> \o sorted

RECURSIVE SortByCount(_, _)
SortByCount(entries, n) ==
    IF n = 0 THEN <<>> ELSE InsertByCount(SortByCount(entries, n - 1), entries[n])

\* Series.value_counts(): (value, count) entries, highest count first
value_counts(s) ==
    LET u == UniquesUpTo(s, Len(s))
        entries == [i \in 1..Len(u) |-> [value |-> u[i], count |-> CountOf(s, u[i])]]
    IN  SortByCount(entries, Len(entries))

idxmax_last(vc) ==
    LET best == CHOOSE i \in 1..Len(vc) :
                    /\ \A j \in 1..Len(vc) : vc[j].count <= vc[i].count
                    /\ \A j \in (i + 1)..Len(vc) : vc[j].count < vc[i].count
    IN  vc[best].value

\* Series.idxmax(): the label of the first entry holding the maximum
idxmax(vc) ==
    LET best == CHOOSE i \in 1..Len(vc) :
                    /\ \A j \in 1..Len(vc) : vc[j].count <= vc[i].count
                    /\ \A j \in 1..(i - 1) : vc[j].count < vc[i].count
    IN  vc[best].value

\* Insert a label into a sequence in ascending string order.
RECURSIVE InsertLex(_, _)
InsertLex(sorted, x) ==
    IF sorted = <<>> THEN <<x>>
    ELSE IF LexLess(x, sorted[1]) THEN <<x>> \o sorted
         ELSE <<sorted[1]>> \o InsertLex(Tail(sorted), x)

RECURSIVE SortLex(_, _)
SortLex(s, n) == IF n = 0 THEN <<>> ELSE InsertLex(SortLex(s, n - 1), s[n])

\* Series.mode(): every most frequent non-missing value, in ascending order
series_mode(s) ==
    LET u == UniquesUpTo(s, Len(s))
        top == SelectSeq(u, LAMBDA v : \A k \in 1..Len(u) : CountOf(s, u[k]) <= CountOf(s, v))
    IN  SortLex(top, Len(top))

\* df.loc[df[col] == v, target]
loc_eq(d, col, v, target) == Column(SelectSeq(d, LAMBDA r : r[col] = v), target)

NoDataMsg == <<"No data available for recommendations.">>

KeepPracticingMsg == <<"Keep practicing!">>

WeaknessMsg(w) == <<"Primary Weakness: **", w, "**">>

ActionMsg(r) == <<"Recommended Action: Review **", r, "** to improve in this area.">>

TipMsg == <<"Tip: Focus on consistent application of rubric criteria.">>

recommendations_for(d, top_weakness, rec_resource) ==
    LET rec_id == IF rec_resource # <<>> THEN rec_resource[1] ELSE "general-review"
    IN  <<WeaknessMsg(top_weakness), ActionMsg(rec_id), TipMsg>>

get_recommendations_no_guard(d) ==
    LET weakness_counts == value_counts(Column(d, "primary_weakness"))
    IN  IF weakness_counts = <<>> THEN <<KeepPracticingMsg>>
        ELSE LET top_weakness == idxmax(weakness_counts)
             IN  recommendations_for(d, top_weakness,
                    series_mode(loc_eq(d, "primary_weakness", top_weakness,
                                       "recommended_resource_id")))

get_recommendations_no_tip(d) ==
    IF d = <<>> THEN <<NoDataMsg>>
    ELSE LET weakness_counts == value_counts(Column(d, "primary_weakness"))
         IN  IF weakness_counts = <<>> THEN <<KeepPracticingMsg>>
             ELSE LET top_weakness == idxmax(weakness_counts)
                      rec_resource == series_mode(loc_eq(d, "primary_weakness", top_weakness,
                                                         "recommended_resource_id"))
                  IN  IF rec_resource = <<>> THEN <<WeaknessMsg(top_weakness)>>
                      ELSE recommendations_for(d, top_weakness, rec_resource)

get_recommendations_global_mode(d) ==
    IF d = <<>> THEN <<NoDataMsg>>
    ELSE LET weakness_counts == value_counts(Column(d, "primary_weakness"))
         IN  IF weakness_counts = <<>> THEN <<KeepPracticingMsg>>
             ELSE recommendations_for(d, idxmax(weakness_counts),
                     series_mode(Column(d, "recommended_resource_id")))

get_recommendations(d) ==
    IF d = <<>> THEN <<NoDataMsg>>
    ELSE LET weakness_counts == value_counts(Column(d, "primary_weakness"))
         IN  IF weakness_counts = <<>> THEN <<KeepPracticingMsg>>
             ELSE LET top_weakness == idxmax(weakness_counts)
                      rec_resource == series_mode(loc_eq(d, "primary_weakness", top_weakness,
                                                         "recommended_resource_id"))
                  IN  recommendations_for(d, top_weakness, rec_resource)

\* ---------------------------------------------------- bounce_back_prompts
\* 0.5 score points, in hundredths
DipMargin == 50

\* for j in range(i + 1, len(scores)): if scores[j] >= avg: ... break
\* The index of the first event from j on scoring at least avg, 0 if none.
RECURSIVE first_recovery_strict(_, _, _)
first_recovery_strict(scores, avg, j) ==
    IF j > Len(scores) THEN 0
    ELSE IF FracLess(avg, Frac(scores[j], 1)) THEN j
         ELSE first_recovery_strict(scores, avg, j + 1)

RECURSIVE first_recovery(_, _, _)
first_recovery(scores, avg, j) ==
    IF j > Len(scores) THEN 0
    ELSE IF ~FracLess(Frac(scores[j], 1), avg) THEN j
         ELSE first_recovery(scores, avg, j + 1)

\* The recoveries list after the outer loop has handled indices 1..i.
RECURSIVE recoveries_upto(_, _, _)
recoveries_upto(scores, avg, i) ==
    IF i = 0 THEN <<>>
    ELSE LET prev == recoveries_upto(scores, avg, i - 1)
             j == first_recovery(scores, avg, i + 1)
         IN  IF FracLess(Frac(scores[i], 1), FracSub(avg, Frac(DipMargin, 1))) /\ j # 0
             THEN Append(prev, j - i)
             ELSE prev

bounce_back_prompts_zero(d) ==
    LET scores == Column(d, "evaluation_score")
    IN  IF scores = <<>> THEN Frac(0, 1)
        ELSE LET avg == Frac(SeqSum(scores), Len(scores))
                 recoveries == recoveries_upto(scores, avg, Len(scores) - 1)
             IN  IF recoveries = <<>> THEN Frac(0, 1)
                 ELSE Frac(SeqSum(recoveries), Len(recoveries))

bounce_back_prompts(d) ==
    LET scores == Column(d, "evaluation_score")
    IN  IF scores = <<>> THEN None
        ELSE LET avg == Frac(SeqSum(scores), Len(scores))
                 recoveries == recoveries_upto(scores, avg, Len(scores) - 1)
             IN  IF recoveries = <<>> THEN None
                 ELSE Frac(SeqSum(recoveries), Len(recoveries))

\* -------------------------------------------------------- resource_effect
\* A table: its column names and its rows; raised names the exception that
\* ended the call, "none" when it returned.
Table(columns, rows) == [raised |-> "none", columns |-> columns, rows |-> rows]

Raised(exc) == [raised |-> exc, columns |-> <<>>, rows |-> <<>>]

EffectColumns == <<"resource", "before", "after", "delta">>

RECURSIVE SeqMin(_)
SeqMin(s) ==
    IF Len(s) = 1 THEN s[1]
    ELSE LET m == SeqMin(Tail(s)) IN IF s[1] <= m THEN s[1] ELSE m

\* A timestamp cell that is missing (pd.to_datetime turns an empty cell into
\* NaT): it is neither before, nor after, nor equal to any timestamp.
NaT == -1

ts_less(a, b) == a # NaT /\ b # NaT /\ a < b

ts_at_least(a, b) == a # NaT /\ b # NaT /\ a >= b

\* Series.min() of timestamps: missing cells are skipped, NaT if all are
series_min_ts(s) ==
    LET present == SelectSeq(s, LAMBDA t : t # NaT)
    IN  IF present = <<>> THEN NaT ELSE SeqMin(present)

\* The body of the groupby loop for one resource: the dict appended to rows.
effect_row_at_or_before(d, resource) ==
    LET group == SelectSeq(d, LAMBDA r : r.resource_id = resource)
        first_ts == series_min_ts(Column(group, "timestamp_utc"))
        before == Column(SelectSeq(d, LAMBDA r :
                     ts_less(r.timestamp_utc, first_ts) \/ r.timestamp_utc = first_ts), "evaluation_score")
        after == Column(SelectSeq(d, LAMBDA r : ts_at_least(r.timestamp_utc, first_ts)), "evaluation_score")
    IN  [skip |-> after = <<>>,
         resource |-> resource,
         before |-> IF before # <<>> THEN series_mean(before) ELSE None,
         after |-> series_mean(after),
         delta |-> IF before # <<>> THEN FracSub(series_mean(after), series_mean(before))
                   ELSE None]

effect_row_group_only(d, resource) ==
    LET group == SelectSeq(d, LAMBDA r : r.resource_id = resource)
        first_ts == series_min_ts(Column(group, "timestamp_utc"))
        before == Column(SelectSeq(d, LAMBDA r : ts_less(r.timestamp_utc, first_ts)), "evaluation_score")
        after == Column(SelectSeq(group, LAMBDA r : ts_at_least(r.timestamp_utc, first_ts)), "evaluation_score")
    IN  [skip |-> after = <<>>,
         resource |-> resource,
         before |-> IF before # <<>> THEN series_mean(before) ELSE None,
         after |-> series_mean(after),
         delta |-> IF before # <<>> THEN FracSub(series_mean(after), series_mean(before))
                   ELSE None]

effect_row(d, resource) ==
    LET group == SelectSeq(d, LAMBDA r : r.resource_id = resource)
        first_ts == series_min_ts(Column(group, "timestamp_utc"))
        before == Column(SelectSeq(d, LAMBDA r : ts_less(r.timestamp_utc, first_ts)), "evaluation_score")
        after == Column(SelectSeq(d, LAMBDA r : ts_at_least(r.timestamp_utc, first_ts)), "evaluation_score")
    IN  [skip |-> after = <<>>,
         resource |-> resource,
         before |-> IF before # <<>> THEN series_mean(before) ELSE None,
         after |-> series_mean(after),
         delta |-> IF before # <<>> THEN FracSub(series_mean(after), series_mean(before))
                   ELSE None]

\* df.groupby(resource_id): the keys present, missing cells dropped, sorted
groupby_keys(d, col) ==
    LET u == UniquesUpTo(Column(d, col), Len(d)) IN SortLex(u, Len(u))

\* rows after the loop has handled the first n groups
RECURSIVE effect_rows(_, _, _)
effect_rows(d, keys, n) ==
    IF n = 0 THEN <<>>
    ELSE LET prev == effect_rows(d, keys, n - 1)
             e == effect_row(d, keys[n])
         IN  IF e.skip THEN prev
             ELSE Append(prev, [resource |-> e.resource, before |-> e.before,
                                after |-> e.after, delta |-> e.delta])

\* pd.DataFrame(rows) infers each column's type: in a column that holds a
\* float, None becomes NaN; a column of None only keeps None.
infer_cell(rows, col, x) ==
    IF x = None /\ \E i \in 1..Len(rows) : IsNum(rows[i][col]) THEN NaN ELSE x

from_dicts(rows) ==
    IF rows = <<>> THEN Table(<<>>, <<>>)
    ELSE Table(EffectColumns,
               [i \in 1..Len(rows) |->
                   [resource |-> rows[i].resource,
                    before |-> infer_cell(rows, "before", rows[i].before),
                    after |-> rows[i].after,
                    delta |-> infer_cell(rows, "delta", rows[i].delta)]])

\* Insert row e into rows sorted by descending delta; equal deltas keep their
\* order and rows without a delta stay behind every row with one.
RECURSIVE InsertByDelta(_, _)
InsertByDelta(sorted, e) ==
    IF sorted = <<>> THEN <<e>>
    ELSE IF IsNum(sorted[1].delta) /\ (~IsNum(e.delta) \/ ~FracLess(sorted[1].delta, e.delta))
         THEN <<sorted[1]>> \o InsertByDelta(Tail(sorted), e)
         ELSE IF ~IsNum(sorted[1].delta) /\ ~IsNum(e.delta)
              THEN <<sorted[1]>> \o InsertByDelta(Tail(sorted), e)
              ELSE <<e>> \o sorted

RECURSIVE InsertByDeltaAscending(_, _)
InsertByDeltaAscending(sorted, e) ==
    IF sorted = <<>> THEN <<e>>
    ELSE IF IsNum(sorted[1].delta) /\ (~IsNum(e.delta) \/ ~FracLess(e.delta, sorted[1].delta))
         THEN <<sorted[1]>> \o InsertByDeltaAscending(Tail(sorted), e)
         ELSE IF ~IsNum(sorted[1].delta) /\ ~IsNum(e.delta)
              THEN <<sorted[1]>> \o InsertByDeltaAscending(Tail(sorted), e)
              ELSE <<e>> \o sorted

RECURSIVE SortByDeltaAscending(_, _)
SortByDeltaAscending(rows, n) ==
    IF n = 0 THEN <<>>
    ELSE InsertByDeltaAscending(SortByDeltaAscending(rows, n - 1), rows[n])

RECURSIVE SortByDelta(_, _)
SortByDelta(rows, n) ==
    IF n = 0 THEN <<>> ELSE InsertByDelta(SortByDelta(rows, n - 1), rows[n])

sort_values_delta_ascending(t) ==
    IF ~InSeq("delta", t.columns) THEN Raised("KeyError")
    ELSE Table(t.columns, SortByDeltaAscending(t.rows, Len(t.rows)))

\* DataFrame.sort_values("delta", ascending=False): KeyError without the column
sort_values_delta(t) ==
    IF ~InSeq("delta", t.columns) THEN Raised("KeyError")
    ELSE Table(t.columns, SortByDelta(t.rows, Len(t.rows)))

resource_effect(d) ==
    IF d = <<>> THEN Table(EffectColumns, <<>>)
    ELSE LET keys == groupby_keys(d, "resource_id")
         IN  sort_values_delta(from_dicts(effect_rows(d, keys, Len(keys))))

\* ------------------------------------------------------ acted_on_feedback
\* Insert row e into rows sorted by ascending timestamp, behind every row
\* whose timestamp is not later: equal timestamps keep their order.
RECURSIVE InsertByTs(_, _)
InsertByTs(sorted, e) ==
    IF sorted = <<>> THEN <<e>>
    ELSE IF sorted[1].timestamp_utc <= e.timestamp_utc
         THEN <<sorted[1]>> \o InsertByTs(Tail(sorted), e)
         ELSE <<e>> \o sorted

RECURSIVE SortByTs(_, _)
SortByTs(d, n) == IF n = 0 THEN <<>> ELSE InsertByTs(SortByTs(d, n - 1), d[n])

\* df.sort_values(timestamp_utc): a new table, the input is left as it was
sort_values_ts(d) == SortByTs(d, Len(d))

\* Python's == on two cells: a missing cell (float nan) equals nothing
cell_eq(a, b) == a = b /\ ~isna(a)

FollowedNote == "Followed recommendation next session"

ActedColumns == <<"timestamp", "resource", "note">>

\* records after the loop has handled i = 1..n (0-based 0..n-1)
RECURSIVE acted_records(_, _)
acted_records(df_sorted, n) ==
    IF n <= 0 THEN <<>>
    ELSE LET prev == acted_records(df_sorted, n - 1)
             rec == df_sorted[n].recommended_resource_id
             next_res == df_sorted[n + 1].resource_id
         IN  IF cell_eq(rec, next_res)
             THEN Append(prev, [timestamp |-> df_sorted[n + 1].timestamp_utc,
                                resource |-> rec,
                                note |-> FollowedNote])
             ELSE prev

\* pd.DataFrame(records): no record, no column
from_records(columns, records) ==
    IF records = <<>> THEN Table(<<>>, <<>>) ELSE Table(columns, records)

acted_on_feedback_unsorted(d) ==
    from_records(ActedColumns, acted_records(d, Len(d) - 1))

acted_on_feedback(d) ==
    LET df_sorted == sort_values_ts(d)
    IN  from_records(ActedColumns, acted_records(df_sorted, Len(df_sorted) - 1))

\* ----------------------------------------------------------- surprise_dips
\* 1 score point, in hundredths
SurpriseMargin == 100

FracOfInt(n) == Frac(n, 1)

\* Insert x into an ascending sequence of integers.
RECURSIVE InsertAsc(_, _)
InsertAsc(sorted, x) ==
    IF sorted = <<>> THEN <<x>>
    ELSE IF sorted[1] <= x THEN <<sorted[1]>> \o InsertAsc(Tail(sorted), x)
         ELSE <<x>> \o sorted

RECURSIVE SortAsc(_, _)
SortAsc(s, n) == IF n = 0 THEN <<>> ELSE InsertAsc(SortAsc(s, n - 1), s[n])

\* Series.median(): the middle value, or the mean of the two middle values
series_median(s) ==
    LET sorted == SortAsc(s, Len(s))
        n == Len(s)
    IN  IF n = 0 THEN NaN
        ELSE IF n % 2 = 1 THEN FracOfInt(sorted[(n + 1) \div 2])
             ELSE Frac(sorted[n \div 2] + sorted[n \div 2 + 1], 2)

DipColumns == <<"timestamp", "score">>

EmptyDipColumns == <<"timestamp", "score", "note">>

\* dips[[timestamp_utc, evaluation_score]].rename(columns=...)
project_dips(dips) ==
    [i \in 1..Len(dips) |->
        [timestamp |-> dips[i].timestamp_utc, score |-> dips[i].evaluation_score]]

surprise_dips_at_or_below(d) ==
    IF d = <<>> THEN Table(EmptyDipColumns, <<>>)
    ELSE LET median == series_median(Column(d, "evaluation_score"))
             limit == FracSub(median, FracOfInt(SurpriseMargin))
             dips == SelectSeq(d, LAMBDA r : ~FracLess(limit, FracOfInt(r.evaluation_score)))
         IN  Table(DipColumns, project_dips(dips))

surprise_dips(d) ==
    IF d = <<>> THEN Table(EmptyDipColumns, <<>>)
    ELSE LET median == series_median(Column(d, "evaluation_score"))
             limit == FracSub(median, FracOfInt(SurpriseMargin))
             dips == SelectSeq(d, LAMBDA r : FracLess(FracOfInt(r.evaluation_score), limit))
         IN  Table(DipColumns, project_dips(dips))

\* ----------------------------------------------------------- goal_progress
\* DataFrame.head(n) and DataFrame.tail(n) for n >= 0
frame_head(d, n) == SubSeq(d, 1, IF n < Len(d) THEN n ELSE Len(d))

frame_tail(d, n) == SubSeq(d, (IF n < Len(d) THEN Len(d) - n ELSE 0) + 1, Len(d))

Max(a, b) == IF a >= b THEN a ELSE b

\* an empty window answers the target instead of 0
goal_progress_to_target(d, target_score, target_interactions) ==
    LET recent == frame_tail(d, target_interactions)
    IN  [current_avg |-> IF recent # <<>>
                         THEN series_mean(Column(recent, "evaluation_score"))
                         ELSE FracOfInt(target_score),
         remaining |-> Max(0, target_interactions - Len(recent))]

goal_progress_head(d, target_score, target_interactions) ==
    LET recent == frame_head(d, target_interactions)
    IN  [current_avg |-> IF recent # <<>>
                         THEN series_mean(Column(recent, "evaluation_score"))
                         ELSE FracOfInt(0),
         remaining |-> Max(0, target_interactions - Len(recent))]

goal_progress(d, target_score, target_interactions) ==
    LET recent == frame_tail(d, target_interactions)
    IN  [current_avg |-> IF recent # <<>>
                         THEN series_mean(Column(recent, "evaluation_score"))
                         ELSE FracOfInt(0),
         remaining |-> Max(0, target_interactions - Len(recent))]

\* --------------------------------------------------------- recent_sessions
\* limit: int = 6
RecentLimit == 6

RecentColumns == <<"timestamp_utc", "evaluation_score", "primary_weakness", "resource_id">>

\* Insert row e into rows sorted by descending timestamp, behind every row
\* whose timestamp is not earlier.
RECURSIVE InsertByTsDesc(_, _)
InsertByTsDesc(sorted, e) ==
    IF sorted = <<>> THEN <<e>>
    ELSE IF sorted[1].timestamp_utc >= e.timestamp_utc
         THEN <<sorted[1]>> \o InsertByTsDesc(Tail(sorted), e)
         ELSE <<e>> \o sorted

RECURSIVE SortByTsDesc(_, _)
SortByTsDesc(d, n) == IF n = 0 THEN <<>> ELSE InsertByTsDesc(SortByTsDesc(d, n - 1), d[n])

recent_sessions(d, limit) ==
    LET newest == frame_head(SortByTsDesc(d, Len(d)), limit)
    IN  Table(RecentColumns,
              [i \in 1..Len(newest) |->
                  [timestamp_utc |-> newest[i].timestamp_utc,
                   evaluation_score |-> newest[i].evaluation_score,
                   primary_weakness |-> newest[i].primary_weakness,
                   resource_id |-> newest[i].resource_id]])

\* ------------------------------------------------------- consistency_score
\* A float64 of magnitude 1 <= x < 32 is held exactly, as the integer
\* x * 2^52 written with three limbs <<a, b, c>> = a * 2^40 + b * 2^20 + c;
\* such an x is a float64 when the integer is a multiple of 2^k for the k
\* with 2^(52+k) <= integer < 2^(53+k).
MantissaBits == 53

LimbBits == 20

RECURSIVE Pow2(_)
Pow2(k) == IF k = 0 THEN 1 ELSE 2 * Pow2(k - 1)

LimbBase == Pow2(LimbBits)

BigAdd(x, y) ==
    LET c == x[3] + y[3]
        b == x[2] + y[2] + c \div LimbBase
        a == x[1] + y[1] + b \div LimbBase
    IN  <<a, b % LimbBase, c % LimbBase>>

BigLess(x, y) ==
    \/ x[1] < y[1]
    \/ x[1] = y[1] /\ x[2] < y[2]
    \/ x[1] = y[1] /\ x[2] = y[2] /\ x[3] < y[3]

\* quotient and remainder of x by a small divisor
BigDivSmall(x, divisor) ==
    LET t1 == (x[1] % divisor) * LimbBase + x[2]
        t2 == (t1 % divisor) * LimbBase + x[3]
    IN  [q |-> <<x[1] \div divisor, t1 \div divisor, t2 \div divisor>>, r |-> t2 % divisor]

BigMulSmall(x, g) ==
    LET c == x[3] * g
        b == x[2] * g + c \div LimbBase
        a == x[1] * g + b \div LimbBase
    IN  <<a, b % LimbBase, c % LimbBase>>

\* n * 2^(53+k), the first integer whose quotient by n needs spacing 2^(k+1)
BinadeTop(n, k) == <<n * Pow2(MantissaBits - 2 * LimbBits + k), 0, 0>>

RECURSIVE BinadeShift(_, _, _)
BinadeShift(x, n, k) ==
    IF BigLess(x, BinadeTop(n, k)) THEN k ELSE BinadeShift(x, n, k + 1)

\* The float64 nearest to x / n, ties to even (IEEE 754 division; with
\* n = 1, the rounding of an exact sum).
fl_quot(x, n) ==
    LET k == BinadeShift(x, n, 0)
        divisor == n * Pow2(k)
        qr == BigDivSmall(x, divisor)
        up == \/ 2 * qr.r > divisor
              \/ 2 * qr.r = divisor /\ qr.q[3] % 2 = 1
        q == IF up THEN BigAdd(qr.q, <<0, 0, 1>>) ELSE qr.q
    IN  BigMulSmall(q, Pow2(k))

fl_add(x, y) == fl_quot(BigAdd(x, y), 1)

\* The float64 read for a score cell of h hundredths: h / 100 rounded
float64_of(h) == fl_quot(<<h * Pow2(MantissaBits - 1 - 2 * LimbBits), 0, 0>>, 100)

\* values.sum() of fewer than 8 floats: added one after the other
RECURSIVE fl_sum(_, _)
fl_sum(values, n) ==
    IF n = 1 THEN values[1] ELSE fl_add(fl_sum(values, n - 1), values[n])

\* The sum of the squares of n * x - total over the cells x: n^2 times the
\* sum of the squared deviations from the mean.
RECURSIVE SquaresTotal(_, _, _)
SquaresTotal(s, total, i) ==
    IF i = 0 THEN 0
    ELSE SquaresTotal(s, total, i - 1)
            + (Len(s) * s[i] - total) * (Len(s) * s[i] - total)

\* Series.std(ddof): avg = sum / count, then the root of the sum of the
\* squares of avg - value over count - ddof.  The result is held as var, the
\* exact variance of the cells that the float result is the rounded root of,
\* and zero, whether the float result is exactly 0.0: it is when avg - value
\* is 0.0 for every value, since the square of any other float64 here is a
\* positive float64.
series_std(s, ddof) ==
    LET n == Len(s)
        values == [i \in 1..n |-> float64_of(s[i])]
    IN  IF n - ddof <= 0 THEN [k |-> "nan", zero |-> FALSE, var |-> NaN]
        ELSE LET avg == fl_quot(fl_sum(values, n), n)
             IN  [k |-> "num",
                  zero |-> \A i \in 1..n : avg = values[i],
                  var |-> Frac(SquaresTotal(s, SeqSum(s), n), n * n * (n - ddof))]

consistency_score_sample(d) == series_std(Column(d, "evaluation_score"), 1)

consistency_score(d) == series_std(Column(d, "evaluation_score"), 0)

\* ------------------------------------------------------ aggregate_summary
aggregate_summary(d) ==
    [events |-> Len(d),
     learners |-> series_nunique(Column(d, "learner_id")),
     resources |-> series_nunique(Column(d, "resource_id")),
     avg_score |-> series_mean(Column(d, "evaluation_score"))]

\* ------------------------------------------------- tables as objects
\* A heap is the sequence of the table objects alive during a call; a
\* reference is an index into it.  The caller's table is object 1.

\* df.copy(): a new object with the same content
frame_copy(heap, ref) == Append(heap, heap[ref])

\* one row with the cell of column col set to v (the column is added when
\* the row does not have it)
SetCell(row, col, v) ==
    [c \in DOMAIN row \cup {col} |-> IF c = col THEN v ELSE row[c]]

\* frame[col] = values: changes the object frame refers to
frame_setitem(heap, ref, col, values) ==
    [heap EXCEPT ![ref] = [i \in 1..Len(@) |-> SetCell(@[i], col, values[i])]]

\* df.sort_values(timestamp_utc): a new object
frame_sort_values_ts(heap, ref) == Append(heap, sort_values_ts(heap[ref]))

\* timestamps are counted in hours since midnight of day 0
HoursPerDay == 24

dt_hour(ts) == ts % HoursPerDay

dt_date(ts) == ts \div HoursPerDay

RECURSIVE SortedInts(_)
SortedInts(S) ==
    IF S = {} THEN <<>>
    ELSE LET m == CHOOSE x \in S : \A y \in S : x <= y
         IN  <<m>> \o SortedInts(S \ {m})

RECURSIVE SortedLabels(_)
SortedLabels(S) ==
    IF S = {} THEN <<>>
    ELSE LET m == CHOOSE x \in S : \A y \in S : LexRank(x) <= LexRank(y)
         IN  <<m>> \o SortedLabels(S \ {m})

RowsWhere(rows, col, v) == SelectSeq(rows, LAMBDA r : r[col] = v)

\* ---------------------------------------------------------- best_time_chart
\* agg: one row per hour, ascending, with the mean score of that hour
hour_means(rows) ==
    LET keys == SortedInts({rows[i].hour : i \in 1..Len(rows)})
    IN  [j \in 1..Len(keys) |->
            [hour |-> keys[j],
             evaluation_score |->
                 series_mean(Column(RowsWhere(rows, "hour", keys[j]), "evaluation_score"))]]

best_time_chart_in_place(heap, df_ref) ==
    LET hours == df_ref
        assigned == frame_setitem(heap, hours, "hour",
                        [i \in 1..Len(heap[hours]) |->
                            dt_hour(heap[hours][i].timestamp_utc)])
    IN  [heap |-> assigned, val |-> hour_means(assigned[hours])]

best_time_chart(heap, df_ref) ==
    LET copied == frame_copy(heap, df_ref)
        hours == Len(copied)
        assigned == frame_setitem(copied, hours, "hour",
                        [i \in 1..Len(copied[hours]) |->
                            dt_hour(copied[hours][i].timestamp_utc)])
    IN  [heap |-> assigned, val |-> hour_means(assigned[hours])]

\* ----------------------------------------------------- weakness_decay_chart
\* rolling(window=7, min_periods=1)
RollingWindow == 7

EmptyFigure == [index |-> <<>>, columns |-> <<>>, rows |-> <<>>]

\* groupby([date, weakness]).size(), pivoted: one row per date present,
\* one column per weakness present, 0 where a pair has no row
daily_count(rows, date, weakness) ==
    Len(SelectSeq(rows, LAMBDA r : r.date = date /\ r.primary_weakness = weakness))

RECURSIVE CountsOver(_, _, _, _, _)
CountsOver(rows, dates, weakness, from, to) ==
    IF from > to THEN 0
    ELSE daily_count(rows, dates[to], weakness)
            + CountsOver(rows, dates, weakness, from, to - 1)

\* the mean of the last RollingWindow rows of the pivot, up to row i
rolling_mean(rows, dates, weakness, i) ==
    LET from == Max(1, i - RollingWindow + 1)
    IN  Frac(CountsOver(rows, dates, weakness, from, i), i - from + 1)

weakness_pivot(rows) ==
    LET present == SelectSeq(rows, LAMBDA r : ~isna(r.primary_weakness))
        dates == SortedInts({present[i].date : i \in 1..Len(present)})
        labels == {present[i].primary_weakness : i \in 1..Len(present)}
    IN  [index |-> dates,
         columns |-> SortedLabels(labels),
         rows |-> [i \in 1..Len(dates) |->
                      [w \in labels |-> rolling_mean(present, dates, w, i)]]]

weakness_decay_chart(heap, df_ref) ==
    IF heap[df_ref] = <<>> THEN [heap |-> heap, val |-> EmptyFigure]
    ELSE LET copied == frame_copy(heap, df_ref)
             frame == Len(copied)
             assigned == frame_setitem(copied, frame, "date",
                             [i \in 1..Len(copied[frame]) |->
                                 dt_date(copied[frame][i].timestamp_utc)])
         IN  [heap |-> assigned, val |-> weakness_pivot(assigned[frame])]

\* acted_on_feedback with its tables as objects: df_sorted is a new object
acted_on_feedback_frames(heap, df_ref) ==
    LET sorted == frame_sort_values_ts(heap, df_ref)
        df_sorted == Len(sorted)
    IN  [heap |-> sorted,
         val |-> from_records(ActedColumns,
                     acted_records(sorted[df_sorted], Len(sorted[df_sorted]) - 1))]

\* ------------------------------------------------------- generate_events
\* f"L-{i:03d}": the number in decimal, padded with zeros to three digits
learner_id_of(i) ==
    IF i < 10 THEN "L-00" \o ToString(i)
    ELSE IF i < 100 THEN "L-0" \o ToString(i)
    ELSE "L-" \o ToString(i)

\* random.randint(a, b): the values a call can return
randint_above(a, b) == a..(b + 1)

randint(a, b) == a..b

\* start = now - timedelta(days=60); random_timestamp(start, days=60)
WindowDays == 60

\* events_for_learner = random.randint(6, 20)
MinEventsPerLearner == 6

MaxEventsPerLearner == 20

ResourceIDs ==
    <<"micro-tutor-01", "micro-tutor-02", "micro-tutor-03", "micro-tutor-04",
      "micro-tutor-05">>

WEAKNESS_MAP ==
    [Clarity |-> "tutorial-clarity-basics",
     Context |-> "tutorial-grounding-techniques",
     Constraints |-> "tutorial-prompt-constraints"]

\* the first key with the highest score
highest_dimension(clarity, context, constraints) ==
    IF clarity >= context /\ clarity >= constraints THEN "Clarity"
    ELSE IF context >= constraints THEN "Context"
    ELSE "Constraints"

\* min(scores, key=scores.get): the first key, in insertion order, with the
\* lowest score
lowest_dimension(clarity, context, constraints) ==
    IF clarity <= context /\ clarity <= constraints THEN "Clarity"
    ELSE IF context <= constraints THEN "Context"
    ELSE "Constraints"

\* round(total / 3, 2), in hundredths
rounded_mean3(total) == (total * 100 + 1) \div 3

\* build_event with the values its random calls returned: draws.resource in
\* 1..5, the three scores in 1..5, draws.chars in 50..1500 and draws.hours,
\* the time of the event in hours after start.
build_event_drawn(learner_id, start, draws) ==
    LET primary_weakness ==
            lowest_dimension(draws.clarity, draws.context, draws.constraints)
    IN  [timestamp_utc |-> start + draws.hours,
         learner_id |-> learner_id,
         learner_role |-> "learner",
         resource_id |-> ResourceIDs[draws.resource],
         user_prompt_character_count |-> draws.chars,
         clarity_score |-> draws.clarity,
         context_score |-> draws.context,
         constraints_score |-> draws.constraints,
         evaluation_score |->
             rounded_mean3(draws.clarity + draws.context + draws.constraints),
         primary_weakness |-> primary_weakness,
         recommended_resource_id |-> WEAKNESS_MAP[primary_weakness]]

\* The values drawn for the k-th event of a run.  random.seed(42) fixes them;
\* this stream stands for the generator's: every value is in the range of
\* its call, and the times of different events differ.
EventDraws(k) ==
    [resource |-> 1 + ((k * 3) % 5),
     clarity |-> 1 + (k % 5),
     context |-> 1 + ((k * 2 + (k \div 5)) % 5),
     constraints |-> 1 + ((k * 3 + (k \div 7)) % 5),
     chars |-> 50 + ((k * 389) % 1451),
     hours |-> (k * 611) % ((WindowDays + 1) * HoursPerDay)]

\* the dict returned without its three sub-score entries
build_event_without_scores(learner_id, start, k) ==
    LET event == build_event_drawn(learner_id, start, EventDraws(k))
    IN  [c \in DOMAIN event \ {"clarity_score", "context_score", "constraints_score"}
            |-> event[c]]

\* the k-th event of a run
build_event(learner_id, start, k) ==
    build_event_drawn(learner_id, start, EventDraws(k))

REQUIRED_COLUMNS ==
    <<"timestamp_utc", "learner_id", "resource_id", "evaluation_score",
      "clarity_score", "context_score", "constraints_score", "primary_weakness",
      "recommended_resource_id", "user_prompt_character_count">>

\* load_data: missing = [col for col in REQUIRED_COLUMNS if col not in df.columns]
missing_columns(columns) ==
    SelectSeq(REQUIRED_COLUMNS, LAMBDA col : col \notin columns)

\* The columns of pd.DataFrame(rows): the keys of the dicts; none without rows
frame_columns(rows) ==
    IF rows = <<>> THEN {} ELSE UNION {DOMAIN rows[i] : i \in 1..Len(rows)}

\* ------------------------------------- generate_events and module random
\* The state of the module-level generator of `random`: how it was seeded
\* (by the process at start, "os", or by a call of random.seed, "seed"), the
\* seed given, and the number of values drawn since.  Equal states give
\* equal values from then on.
ProcessRng == [by |-> "os", seed |-> 0, pos |-> 0]

\* random.seed(42)
Seed == 42

random_seed_skipped(rng, a) == rng

random_seed(rng, a) == [by |-> "seed", seed |-> a, pos |-> 0]

\* the learner of the k-th event when learner i has counts[i] events
RECURSIVE LearnerOfEvent(_, _, _)
LearnerOfEvent(counts, k, i) ==
    IF k <= counts[i] THEN i ELSE LearnerOfEvent(counts, k - counts[i], i + 1)

\* rows after the two loops have appended k events
RECURSIVE rows_built(_, _, _)
rows_built(counts, start, k) ==
    IF k = 0 THEN <<>>
    ELSE Append(rows_built(counts, start, k - 1),
                build_event(learner_id_of(LearnerOfEvent(counts, k, 1)), start, k))

\* generate_events as one call, given the clock reading, the generator's
\* state on entry and counts, the values of random.randint(6, 20) read in
\* the loop.  Each event draws seven values (choice, four randint, uniform
\* and the randint of random_timestamp), each learner one.
generate_events(num_learners, now, rng, counts) ==
    LET seeded == random_seed(rng, Seed)
        start == now - WindowDays * HoursPerDay
    IN  CHOOSE run \in
            {[seeded |-> seeded,
              rng |-> [seeded EXCEPT !.pos = @ + num_learners + 7 * Len(rows)],
              raised |-> IF "timestamp_utc" \in frame_columns(rows)
                         THEN "none" ELSE "KeyError",
              frame |-> sort_values_ts(rows)] :
                rows \in {rows_built(counts, start, SeqSum(counts))}} : TRUE

\* ---------------------------------------------------------------- load_data
\* What is on disk at DATA_PATH: whether the file exists, what pd.read_csv
\* does with it ("ok" or the exception it raises), the columns and rows read,
\* and whether pd.to_datetime parses the timestamp column.
File(exists, read, columns, timestamps_parse, rows) ==
    [exists |-> exists, read |-> read, columns |-> columns,
     timestamps_parse |-> timestamps_parse, rows |-> rows]

\* except (pd.errors.EmptyDataError, pd.errors.ParserError, OSError)
ReadErrorsCaught == {"EmptyDataError", "ParserError", "OSError"}

\* st.error(text) followed by st.stop()
Stopped(text) ==
    [ended |-> "stopped", reported |-> <<[level |-> "error", text |-> text]>>, df |-> <<>>]

\* an exception no handler catches: the pass ends and the runtime shows it
Uncaught(exc) ==
    [ended |-> "raised", reported |-> <<[level |-> "exception", text |-> exc]>>, df |-> <<>>]

\* a missing column is reported and the table is returned all the same
load_data_schema_unchecked(file) ==
    IF ~file.exists THEN Stopped("Data file not found")
    ELSE IF file.read \in ReadErrorsCaught THEN Stopped("Failed to load data")
    ELSE IF file.read # "ok" THEN Uncaught(file.read)
    ELSE IF missing_columns(file.columns) # <<>>
         THEN [ended |-> "returned",
               reported |-> <<[level |-> "error", text |-> "Data schema mismatch"]>>,
               df |-> file.rows]
    ELSE IF ~file.timestamps_parse THEN Stopped("Failed to parse timestamps")
    ELSE [ended |-> "returned", reported |-> <<>>, df |-> file.rows]

load_data(file) ==
    IF ~file.exists THEN Stopped("Data file not found")
    ELSE IF file.read \in ReadErrorsCaught THEN Stopped("Failed to load data")
    ELSE IF file.read # "ok" THEN Uncaught(file.read)
    ELSE IF missing_columns(file.columns) # <<>> THEN Stopped("Data schema mismatch")
    ELSE IF ~file.timestamps_parse THEN Stopped("Failed to parse timestamps")
    ELSE [ended |-> "returned", reported |-> <<>>, df |-> file.rows]

\* --------------------------------------------------- main: learner scope
\* os.environ.get(name) and query_params.get(name) without a value
Unset == "<unset>"

\* Python truth of an optional string
truthy(x) == x \notin {Unset, ""}

\* df[learner_id].unique(): the distinct cells in order of first appearance,
\* a missing cell (nan) among them
RECURSIVE UniqueCells(_, _)
UniqueCells(s, n) ==
    IF n = 0 THEN <<>>
    ELSE LET p == UniqueCells(s, n - 1)
         IN  IF InSeq(s[n], p) THEN p ELSE Append(p, s[n])

series_unique(s) == UniqueCells(s, Len(s))

\* sorted(values): strings in order; a single value needs no comparison; a
\* string and a nan do not compare (TypeError)
sorted_raises(values) ==
    Len(values) > 1 /\ \E i \in 1..Len(values) : isna(values[i])

sorted_list(values) == SortLex(values, Len(values))

\* x in values: an element that is x itself or equals x
in_list(x, values) == \E i \in 1..Len(values) : values[i] = x

\* fixed_id = AIRE_FIXED_LEARNER_ID or query_params.get("learner_id", [default_id])[0]
requested_id(fixed, query, default_id) ==
    IF truthy(fixed) THEN fixed
    ELSE IF query = Unset THEN default_id ELSE query

\* df[df[learner_id] == selected_learner]
learner_subset(d, selected_learner) ==
    SelectSeq(d, LAMBDA r : cell_eq(r.learner_id, selected_learner))

\* ------------------------------------------------------------- the rows
Row(ts, res, score, weak, rec, chars) ==
    [timestamp_utc |-> ts,
     learner_id |-> "L-001",
     resource_id |-> res,
     evaluation_score |-> score,
     primary_weakness |-> weak,
     recommended_resource_id |-> rec,
     user_prompt_character_count |-> chars]

Idle == [op |-> "idle"]

Init ==
    /\ df = <<>>
    /\ out = Idle

\* --------------------------------------------- specification: summaries
SummaryResources == {"R-01", "R-02", NaNLabel}

SummaryScores == {300, 400}

SummaryChars == {100, 200}

AddSummaryRow ==
    /\ Len(df) < MaxRows
    /\ \E res \in SummaryResources, score \in SummaryScores, chars \in SummaryChars :
          df' = Append(df, Row(Len(df) + 1, res, score, "Clarity", "rec-01", chars))
    /\ out' = Idle

CallLearnerSummary ==
    /\ out' = [op |-> "learner_summary", val |-> learner_summary(df)]
    /\ UNCHANGED df

NextSummary == AddSummaryRow \/ CallLearnerSummary

SpecSummary == Init /\ [][NextSummary]_vars

\* C1: learner_summary returns events = the number of rows, resources = the
\* number of distinct resource_id values, avg_score = the arithmetic mean of
\* evaluation_score (undefined on no rows) and total_chars = the sum of
\* user_prompt_character_count; for scores [4.0, 3.0], two different
\* resources and character counts [100, 200] it returns 2, 2, 3.5 and 300.
RECURSIVE TotalOf(_, _, _)
TotalOf(d, c, n) == IF n = 0 THEN 0 ELSE d[n][c] + TotalOf(d, c, n - 1)

IsSampleDf ==
    /\ Len(df) = 2
    /\ df[1].evaluation_score = 400 /\ df[2].evaluation_score = 300
    /\ df[1].resource_id = "R-01" /\ df[2].resource_id = "R-02"
    /\ df[1].user_prompt_character_count = 100
    /\ df[2].user_prompt_character_count = 200

C1_LearnerSummary ==
    out.op = "learner_summary" =>
        /\ out.val.events = Len(df)
        /\ out.val.resources =
              Cardinality({r \in SummaryResources \ {NaNLabel} :
                              \E i \in 1..Len(df) : df[i].resource_id = r})
        /\ out.val.total_chars = TotalOf(df, "user_prompt_character_count", Len(df))
        /\ (Len(df) = 0 => out.val.avg_score = NaN)
        /\ (Len(df) > 0 =>
              /\ IsNum(out.val.avg_score)
              /\ out.val.avg_score.num * Len(df) =
                    out.val.avg_score.den * TotalOf(df, "evaluation_score", Len(df)))
        /\ (IsSampleDf =>
              /\ out.val.events = 2
              /\ out.val.resources = 2
              /\ out.val.avg_score = [k |-> "num", num |-> 350, den |-> 1]
              /\ out.val.total_chars = 300)

C1_Witness ==
    /\ out.op = "learner_summary"
    /\ IsSampleDf
    /\ out.val.total_chars = 300

\* ---------------------------------------- specification: recommendations
Weaknesses == {"Clarity", "Context"}

RecIds == {"rec-01", "rec-02"}

AddRecsRow ==
    /\ Len(df) < MaxRows
    /\ \E weak \in Weaknesses \cup {NaNLabel}, rec \in RecIds \cup {NaNLabel} :
          df' = Append(df, Row(Len(df) + 1, "R-01", 400, weak, rec, 100))
    /\ out' = Idle

CallGetRecommendations ==
    /\ out' = [op |-> "get_recommendations", val |-> get_recommendations(df)]
    /\ UNCHANGED df

NextRecs == AddRecsRow \/ CallGetRecommendations

SpecRecs == Init /\ [][NextRecs]_vars

\* C2: on an empty subset get_recommendations returns exactly the one-element
\* list ["No data available for recommendations."].
C2_EmptyRecommendations ==
    (out.op = "get_recommendations" /\ Len(df) = 0) =>
        out.val = << <<"No data available for recommendations.">> >>

C2_Witness ==
    /\ out.op = "get_recommendations"
    /\ Len(df) = 0
    /\ Len(out.val) = 1

HasWeakness == \E i \in 1..Len(df) : df[i].primary_weakness \in Weaknesses

\* C3: on a non-empty subset with at least one primary_weakness value,
\* get_recommendations returns exactly 3 strings in a fixed template: the
\* first carries a weakness label, the second a resource id, the third is
\* the static tip; only the label and the id vary.
C3_ThreeStringTemplate ==
    (out.op = "get_recommendations" /\ HasWeakness) =>
        /\ Len(out.val) = 3
        /\ \E w \in Weaknesses, r \in RecIds \cup {"general-review"} :
              /\ out.val[1] = <<"Primary Weakness: **", w, "**">>
              /\ out.val[2] = <<"Recommended Action: Review **", r,
                                "** to improve in this area.">>
        /\ out.val[3] = <<"Tip: Focus on consistent application of rubric criteria.">>

C3_Witness ==
    /\ out.op = "get_recommendations"
    /\ Len(df) = 2
    /\ \A i \in 1..2 : df[i].primary_weakness = "Clarity"
                       /\ df[i].recommended_resource_id = "rec-01"
    /\ Len(out.val) = 3
    /\ InSeq("Clarity", out.val[1])
    /\ InSeq("rec-01", out.val[2])

WeaknessFreq(w) == Cardinality({i \in 1..Len(df) : df[i].primary_weakness = w})

CountPos(w) ==
    LET vc == value_counts(Column(df, "primary_weakness"))
    IN  CHOOSE k \in 1..Len(vc) : vc[k].value = w

NamedWeakness == out.val[1][2]

\* C4: the weakness named has a frequency at least that of every other
\* weakness, and among weaknesses of the same highest frequency it is the
\* one that comes first in the frequency count's order.
C4_TopWeakness ==
    (out.op = "get_recommendations" /\ HasWeakness) =>
        /\ NamedWeakness \in Weaknesses
        /\ \A w \in Weaknesses : WeaknessFreq(w) <= WeaknessFreq(NamedWeakness)
        /\ \A w \in Weaknesses :
              (w # NamedWeakness /\ WeaknessFreq(w) = WeaknessFreq(NamedWeakness))
                  => CountPos(NamedWeakness) < CountPos(w)

C4_Witness ==
    /\ out.op = "get_recommendations"
    /\ Len(df) = 2
    /\ df[1].primary_weakness = "Context"
    /\ df[2].primary_weakness = "Clarity"
    /\ NamedWeakness = "Context"

SliceRows == {i \in 1..Len(df) : df[i].primary_weakness = NamedWeakness}

SliceFreq(r) == Cardinality({i \in SliceRows : df[i].recommended_resource_id = r})

NamedResource == out.val[2][2]

\* C5: the resource id named is a most frequent recommended_resource_id of
\* the rows whose primary_weakness is the selected weakness, whatever the
\* other rows hold; when that slice has no value the id is "general-review".
C5_ResourceMode ==
    (out.op = "get_recommendations" /\ HasWeakness) =>
        IF \E r \in RecIds : SliceFreq(r) > 0
        THEN /\ NamedResource \in RecIds
             /\ SliceFreq(NamedResource) > 0
             /\ \A r \in RecIds : SliceFreq(r) <= SliceFreq(NamedResource)
        ELSE NamedResource = "general-review"

C5_Witness ==
    /\ out.op = "get_recommendations"
    /\ Len(df) = 3
    /\ HasWeakness
    /\ NamedWeakness = "Clarity"
    /\ NamedResource = "rec-02"
    /\ \E i \in 1..3 : df[i].primary_weakness = "Context"
                       /\ df[i].recommended_resource_id = "rec-01"

C5_WitnessFallback ==
    /\ out.op = "get_recommendations"
    /\ HasWeakness
    /\ NamedResource = "general-review"

\* -------------------------------------------- specification: bounce back
\* evaluation_score 1.0, 1.5, .. 5.0
BounceScores == {100 + 50 * h : h \in 0..8}

AddBounceRow ==
    /\ Len(df) < MaxBounceRows
    /\ \E score \in BounceScores :
          df' = Append(df, Row(Len(df) + 1, "R-01", score, "Clarity", "rec-01", 100))
    /\ out' = Idle

CallBounceBackPrompts ==
    /\ out' = [op |-> "bounce_back_prompts", val |-> bounce_back_prompts(df)]
    /\ UNCHANGED df

NextBounce == AddBounceRow \/ CallBounceBackPrompts

SpecBounce == Init /\ [][NextBounce]_vars

ScoreTotal == TotalOf(df, "evaluation_score", Len(df))

\* score[i] < mean - 0.5, with both sides multiplied by the row count
IsDipAt(i) == df[i].evaluation_score * Len(df) < ScoreTotal - DipMargin * Len(df)

\* score[j] >= mean
AtLeastMeanAt(j) == df[j].evaluation_score * Len(df) >= ScoreTotal

RecoveredDips ==
    {i \in 1..(Len(df) - 1) : IsDipAt(i) /\ \E j \in (i + 1)..Len(df) : AtLeastMeanAt(j)}

RecoveryDistance(i) ==
    (CHOOSE j \in (i + 1)..Len(df) :
        AtLeastMeanAt(j) /\ \A m \in (i + 1)..(j - 1) : ~AtLeastMeanAt(m)) - i

RECURSIVE DistanceTotal(_)
DistanceTotal(n) ==
    IF n = 0 THEN 0
    ELSE DistanceTotal(n - 1) + (IF n \in RecoveredDips THEN RecoveryDistance(n) ELSE 0)

EffectResources == {"R-01", "R-02"}

EffectScores == {200, 400}

AddEffectRow ==
    /\ Len(df) < MaxRows
    /\ \E ts \in 1..MaxTs, res \in EffectResources \cup {NaNLabel}, score \in EffectScores :
          df' = Append(df, Row(ts, res, score, "Clarity", "rec-01", 100))
    /\ out' = Idle

CallResourceEffect ==
    /\ out' = [op |-> "resource_effect", val |-> resource_effect(df)]
    /\ UNCHANGED df

NextEffect == AddEffectRow \/ CallResourceEffect

SpecEffect == Init /\ [][NextEffect]_vars

UsedResources == {r \in EffectResources : \E i \in 1..Len(df) : df[i].resource_id = r}

\* The earliest timestamp of any row using r
FirstUse(r) ==
    CHOOSE t \in 1..MaxTs :
        /\ \E i \in 1..Len(df) : df[i].resource_id = r /\ df[i].timestamp_utc = t
        /\ \A i \in 1..Len(df) : df[i].resource_id = r => df[i].timestamp_utc >= t

BeforeRows(r) == {i \in 1..Len(df) : df[i].timestamp_utc < FirstUse(r)}

AfterRows(r) == {i \in 1..Len(df) : df[i].timestamp_utc >= FirstUse(r)}

RECURSIVE ScoreTotalOver(_, _)
ScoreTotalOver(S, n) ==
    IF n = 0 THEN 0
    ELSE ScoreTotalOver(S, n - 1) + (IF n \in S THEN df[n].evaluation_score ELSE 0)

IsNull(x) == x.k \in {"none", "nan"}

EffectRowsOf(r) == {k \in 1..Len(out.val.rows) : out.val.rows[k].resource = r}

\* C8: resource_effect reports a null before and a null delta for every
\* resource whose first use has no subset row strictly earlier.
C8_NullBeforeWithoutHistory ==
    out.op = "resource_effect" =>
        \A r \in UsedResources :
            BeforeRows(r) = {} =>
                /\ EffectRowsOf(r) # {}
                /\ \A k \in EffectRowsOf(r) :
                      IsNull(out.val.rows[k].before) /\ IsNull(out.val.rows[k].delta)

C8_Witness ==
    /\ out.op = "resource_effect"
    /\ Len(df) = 3
    /\ df[1].resource_id = "R-02"
    /\ df[1].timestamp_utc = 1
    /\ df[2].resource_id = "R-01"
    /\ df[2].timestamp_utc = 2
    /\ \E k \in 1..Len(out.val.rows) :
          /\ out.val.rows[k].resource = "R-02"
          /\ out.val.rows[k].delta = NaN
    /\ \E k \in 1..Len(out.val.rows) :
          /\ out.val.rows[k].resource = "R-01"
          /\ IsNum(out.val.rows[k].delta)

C10_SortedByDelta ==
    (out.op = "resource_effect" /\ out.val.raised = "none") =>
        \A k \in 1..Len(out.val.rows) : \A l \in (k + 1)..Len(out.val.rows) :
            IsNum(out.val.rows[l].delta) =>
                /\ IsNum(out.val.rows[k].delta)
                /\ ~FracLess(out.val.rows[k].delta, out.val.rows[l].delta)

C10_Witness ==
    /\ out.op = "resource_effect"
    /\ Len(out.val.rows) = 2
    /\ out.val.rows[1].resource = "R-02"
    /\ out.val.rows[2].resource = "R-01"
    /\ IsNum(out.val.rows[2].delta)
    /\ FracLess(out.val.rows[2].delta, out.val.rows[1].delta)

\* -------------------------------------- specification: acted on feedback
ActedResources == {"R-01", "R-02", NaNLabel}

ActedRecommended == {"R-01", NaNLabel}

AddActedRow ==
    /\ Len(df) < MaxRows
    /\ \E ts \in 1..MaxTs, res \in ActedResources, rec \in ActedRecommended :
          df' = Append(df, Row(ts, res, 400, "Clarity", rec, 100))
    /\ out' = Idle

CallActedOnFeedback ==
    /\ out' = [op |-> "acted_on_feedback", val |-> acted_on_feedback(df)]
    /\ UNCHANGED df

NextActed == AddActedRow \/ CallActedOnFeedback

SpecActed == Init /\ [][NextActed]_vars

\* The subset ordered by timestamp ascending
ByTime == sort_values_ts(df)

\* The consecutive pairs (i, i+1) of the ordered subset in which the
\* recommendation of event i is the resource of event i+1
FollowedPairs ==
    {i \in 1..(Len(df) - 1) :
        /\ ByTime[i].recommended_resource_id = ByTime[i + 1].resource_id
        /\ ByTime[i].recommended_resource_id # NaNLabel}

NthFollowedPair(k) ==
    CHOOSE i \in FollowedPairs : Cardinality({j \in FollowedPairs : j <= i}) = k

\* C11: acted_on_feedback orders the subset by timestamp ascending and emits
\* exactly one record (timestamp of event i+1, resource, fixed note) for each
\* consecutive pair whose recommendation equals the next resource, and none
\* for any other pair; n rows that all match give n-1 records.
C11_OneRecordPerFollowedPair ==
    out.op = "acted_on_feedback" =>
        /\ \A i \in 1..(Len(df) - 1) : ByTime[i].timestamp_utc <= ByTime[i + 1].timestamp_utc
        /\ Len(out.val.rows) = Cardinality(FollowedPairs)
        /\ \A k \in 1..Len(out.val.rows) :
              out.val.rows[k] =
                 [timestamp |-> ByTime[NthFollowedPair(k) + 1].timestamp_utc,
                  resource |-> ByTime[NthFollowedPair(k)].recommended_resource_id,
                  note |-> "Followed recommendation next session"]
        /\ (Len(df) >= 1 /\ \A i \in 1..(Len(df) - 1) : i \in FollowedPairs)
              => Len(out.val.rows) = Len(df) - 1

C11_Witness ==
    /\ out.op = "acted_on_feedback"
    /\ Len(df) = 3
    /\ df[1].timestamp_utc = 3
    /\ df[2].timestamp_utc = 1
    /\ df[3].timestamp_utc = 2
    /\ FollowedPairs = {1, 2}
    /\ Len(out.val.rows) = 2

\* ------------------------------------------ specification: surprise dips
DipScores == {200, 250, 300, 400}

AddDipsRow ==
    /\ Len(df) < MaxRows
    /\ \E ts \in 1..MaxTs, score \in DipScores :
          df' = Append(df, Row(ts, "R-01", score, "Clarity", "rec-01", 100))
    /\ out' = Idle

CallSurpriseDips ==
    /\ out' = [op |-> "surprise_dips", val |-> surprise_dips(df)]
    /\ UNCHANGED df

NextDips == AddDipsRow \/ CallSurpriseDips

SpecDips == Init /\ [][NextDips]_vars

\* C13: the table surprise_dips returns for an empty subset has the columns
\* of the table it returns for a non-empty subset, the projection
\* (timestamp, score).
C13_EmptySameColumns ==
    out.op = "surprise_dips" => out.val.columns = <<"timestamp", "score">>

\* The k-th smallest evaluation_score of the subset
KthSmallestScore(k) ==
    CHOOSE v \in DipScores :
        /\ Cardinality({i \in 1..Len(df) : df[i].evaluation_score < v}) < k
        /\ k <= Cardinality({i \in 1..Len(df) : df[i].evaluation_score <= v})

\* Twice the median: the sum of the two middle scores (the middle one twice)
TwiceMedian ==
    KthSmallestScore((Len(df) + 1) \div 2) + KthSmallestScore((Len(df) + 2) \div 2)

\* The rows scoring strictly less than median - 1
DipRows == {i \in 1..Len(df) : 2 * df[i].evaluation_score < TwiceMedian - 2 * 100}

NthDipRow(k) == CHOOSE i \in DipRows : Cardinality({j \in DipRows : j <= i}) = k

\* C14: for a non-empty subset surprise_dips returns exactly the rows whose
\* evaluation_score is strictly less than the median minus 1, projected to
\* (timestamp, score), in the subset's row order; a row scoring exactly
\* median - 1 is not returned.
C14_RowsBelowMedianMinusOne ==
    (out.op = "surprise_dips" /\ Len(df) > 0) =>
        /\ out.val.columns = <<"timestamp", "score">>
        /\ Len(out.val.rows) = Cardinality(DipRows)
        /\ \A k \in 1..Len(out.val.rows) :
              out.val.rows[k] = [timestamp |-> df[NthDipRow(k)].timestamp_utc,
                                 score |-> df[NthDipRow(k)].evaluation_score]

C14_Witness ==
    /\ out.op = "surprise_dips"
    /\ Len(df) = 3
    /\ df[1].evaluation_score = 300
    /\ df[2].evaluation_score = 400
    /\ df[3].evaluation_score = 400
    /\ out.val.rows = <<>>

C14_WitnessDips ==
    /\ out.op = "surprise_dips"
    /\ Len(df) = 3
    /\ df[1].timestamp_utc > df[2].timestamp_utc
    /\ Len(out.val.rows) = 1
    /\ out.val.rows[1].score = 250

\* ------------------------------------------ specification: goal progress
GoalScores == {200, 400, 500}

\* target_score 4.0 and 4.2, target_interaction_count 0 .. MaxTarget
TargetScores == {400, 420}

AddGoalRow ==
    /\ Len(df) < MaxRows
    /\ \E score \in GoalScores :
          df' = Append(df, Row(Len(df) + 1, "R-01", score, "Clarity", "rec-01", 100))
    /\ out' = Idle

CallGoalProgress ==
    /\ \E target_score \in TargetScores, target_interactions \in 0..MaxTarget :
          out' = [op |-> "goal_progress",
                  args |-> [target_score |-> target_score,
                            target_interactions |-> target_interactions],
                  val |-> goal_progress(df, target_score, target_interactions)]
    /\ UNCHANGED df

NextGoal == AddGoalRow \/ CallGoalProgress

SpecGoal == Init /\ [][NextGoal]_vars

\* The number of rows in the window: min(k, n)
GoalWindow == IF out.args.target_interactions < Len(df)
              THEN out.args.target_interactions ELSE Len(df)

\* C15: goal_progress returns current_avg = the mean evaluation_score of the
\* last min(k, n) rows in row order (0 when that window is empty) and
\* remaining = max(0, k - rows in the window), which is 0 exactly when n >= k.
C15_GoalWindow ==
    out.op = "goal_progress" =>
        /\ out.val.remaining >= 0
        /\ out.val.remaining >= out.args.target_interactions - GoalWindow
        /\ out.val.remaining \in {0, out.args.target_interactions - GoalWindow}
        /\ (out.val.remaining = 0 <=> Len(df) >= out.args.target_interactions)
        /\ IsNum(out.val.current_avg)
        /\ IF GoalWindow = 0
           THEN out.val.current_avg.num = 0
           ELSE out.val.current_avg.num * GoalWindow =
                   out.val.current_avg.den *
                      (TotalOf(df, "evaluation_score", Len(df))
                         - TotalOf(df, "evaluation_score", Len(df) - GoalWindow))

C15_Witness ==
    /\ out.op = "goal_progress"
    /\ out.args.target_interactions = 2
    /\ Len(df) = 3
    /\ df[1].evaluation_score = 200
    /\ df[2].evaluation_score = 400
    /\ df[3].evaluation_score = 500
    /\ out.val.current_avg = [k |-> "num", num |-> 450, den |-> 1]
    /\ out.val.remaining = 0

C15_WitnessShort ==
    /\ out.op = "goal_progress"
    /\ out.args.target_interactions = Len(df) + 1
    /\ out.val.remaining = 1

\* ------------------------------------ specification: consistency score
\* 3.0 and 4.0 are float64 values; 3.67 (the rounded mean of 3, 4, 4) is not
StdScores == {300, 367, 400}

AddStdRow ==
    /\ Len(df) < MaxStdRows
    /\ \E score \in StdScores :
          df' = Append(df, Row(Len(df) + 1, "R-01", score, "Clarity", "rec-01", 100))
    /\ out' = Idle

CallConsistencyScore ==
    /\ out' = [op |-> "consistency_score", val |-> consistency_score(df)]
    /\ UNCHANGED df

NextStd == AddStdRow \/ CallConsistencyScore

SpecStd == Init /\ [][NextStd]_vars

IdenticalScores == \A i \in 1..Len(df) : df[i].evaluation_score = df[1].evaluation_score

RECURSIVE SquareTotal(_)
SquareTotal(i) ==
    IF i = 0 THEN 0
    ELSE SquareTotal(i - 1) + df[i].evaluation_score * df[i].evaluation_score

\* C16 as stated: consistency_score is exactly 0.0 on a single-row subset and
\* on any subset whose rows all have the same score.
C16_ZeroOnIdenticalScores ==
    (out.op = "consistency_score" /\ df # <<>> /\ IdenticalScores) => out.val.zero

\* C16, amended: consistency_score is the population standard deviation
\* (variance = (n * sum of squares - square of the sum) / n^2, divisor n) of
\* evaluation_score; it is exactly 0.0 only when all rows have the same score,
\* and it is exactly 0.0 on a single row, on two rows of the same score and on
\* any number of rows sharing a score that is a multiple of 0.5.
C16_PopulationStd ==
    (out.op = "consistency_score" /\ df # <<>>) =>
        /\ out.val.k = "num"
        /\ out.val.var.num * Len(df) * Len(df) =
              out.val.var.den *
                 (Len(df) * SquareTotal(Len(df))
                    - TotalOf(df, "evaluation_score", Len(df))
                        * TotalOf(df, "evaluation_score", Len(df)))
        /\ out.val.zero => IdenticalScores
        /\ Len(df) = 1 => out.val.zero
        /\ (IdenticalScores /\ (Len(df) <= 2 \/ df[1].evaluation_score % 50 = 0))
              => out.val.zero

C16_Witness ==
    /\ out.op = "consistency_score"
    /\ Len(df) = 2
    /\ df[1].evaluation_score = 367
    /\ df[2].evaluation_score = 367
    /\ out.val.zero
    /\ out.val.var = FracOfInt(0)

C16_WitnessSpread ==
    /\ out.op = "consistency_score"
    /\ Len(df) = 2
    /\ df[1].evaluation_score = 300
    /\ df[2].evaluation_score = 400
    /\ ~out.val.zero
    /\ out.val.var = FracOfInt(2500)

\* ------------------------------------ specification: aggregate summary
\* Here df is the whole dataset: rows of several learners.
AggregateLearners == {"L-001", "L-002"}

AggregateResources == {"R-01", "R-02"}

AggregateScores == {300, 400}

AddAggregateRow ==
    /\ Len(df) < MaxRows
    /\ \E learner \in AggregateLearners, res \in AggregateResources,
          score \in AggregateScores :
          df' = Append(df, [Row(Len(df) + 1, res, score, "Clarity", "rec-01", 100)
                               EXCEPT !.learner_id = learner])
    /\ out' = Idle

CallAggregateSummary ==
    /\ out' = [op |-> "aggregate_summary", val |-> aggregate_summary(df)]
    /\ UNCHANGED df

NextAggregate == AddAggregateRow \/ CallAggregateSummary

SpecAggregate == Init /\ [][NextAggregate]_vars

\* C17: aggregate_summary returns a mapping with the keys of learner_summary
\* (events, resources, avg_score, total_chars) plus learners, the number of
\* distinct learner_id values, each computed over the whole dataset.
C17_SummaryKeysPlusLearners ==
    out.op = "aggregate_summary" =>
        /\ DOMAIN out.val = DOMAIN learner_summary(df) \cup {"learners"}
        /\ out.val.learners = Cardinality({df[i].learner_id : i \in 1..Len(df)})
        /\ out.val.events = Len(df)

\* ------------------------------- specification: the learner-level calls
\* Every cell a function below reads may be missing or present.
EdgeResources == {"R-01", NaNLabel}

EdgeRecommended == {"R-01", NaNLabel}

EdgeScores == {300, 367}

AddEdgeRow ==
    /\ Len(df) < MaxRows
    /\ \E res \in EdgeResources, rec \in EdgeRecommended, score \in EdgeScores :
          df' = Append(df, Row(Len(df) + 1, res, score, "Clarity", rec, 100))
    /\ out' = Idle

CallRecentSessions ==
    /\ out' = [op |-> "recent_sessions", val |-> recent_sessions(df, RecentLimit)]
    /\ UNCHANGED df

NextEdge ==
    \/ AddEdgeRow
    \/ CallConsistencyScore
    \/ CallBounceBackPrompts
    \/ CallGoalProgress
    \/ CallSurpriseDips
    \/ CallResourceEffect
    \/ CallActedOnFeedback
    \/ CallRecentSessions

SpecEdge == Init /\ [][NextEdge]_vars

TableOps == {"surprise_dips", "resource_effect", "acted_on_feedback", "recent_sessions"}

\* C12: on an empty subset and on a single-row subset none of
\* consistency_score, bounce_back_prompts, goal_progress, surprise_dips,
\* resource_effect, acted_on_feedback and recent_sessions raises; on the empty
\* subset each returns its empty or placeholder value (an empty table, the
\* sentinel None, an undefined scalar or 0).
C12_NoRaiseOnEmptyOrSingleRow ==
    Len(df) <= 1 =>
        /\ out.op \in TableOps =>
              /\ out.val.raised = "none"
              /\ df = <<>> => out.val.rows = <<>>
        /\ out.op = "consistency_score" =>
              out.val.k = (IF df = <<>> THEN "nan" ELSE "num")
        /\ out.op = "bounce_back_prompts" => out.val = None
        /\ (out.op = "goal_progress" /\ df = <<>>) =>
              /\ out.val.current_avg = FracOfInt(0)
              /\ out.val.remaining = out.args.target_interactions

\* --------------------------- specification: calls on the caller's table
\* hours 1 and 2 of day 0, hour 1 of day 1
FrameTimes == {1, 2, 25}

FrameScores == {300, 400}

AddFrameRow ==
    /\ Len(df) < MaxRows
    /\ \E ts \in FrameTimes, score \in FrameScores, weak \in Weaknesses :
          df' = Append(df, Row(ts, "R-01", score, weak, "R-01", 100))
    /\ out' = Idle

\* the caller's table after the call is the content of object 1
CallBestTimeChart ==
    LET done == best_time_chart(<<df>>, 1)
    IN  /\ out' = [op |-> "best_time_chart", val |-> done.val]
        /\ df' = done.heap[1]

CallWeaknessDecayChart ==
    LET done == weakness_decay_chart(<<df>>, 1)
    IN  /\ out' = [op |-> "weakness_decay_chart", val |-> done.val]
        /\ df' = done.heap[1]

CallActedOnFeedbackFrames ==
    LET done == acted_on_feedback_frames(<<df>>, 1)
    IN  /\ out' = [op |-> "acted_on_feedback", val |-> done.val]
        /\ df' = done.heap[1]

NextFrame ==
    \/ AddFrameRow
    \/ CallBestTimeChart
    \/ CallWeaknessDecayChart
    \/ CallActedOnFeedbackFrames
    \/ CallLearnerSummary
    \/ CallGetRecommendations
    \/ CallResourceEffect
    \/ CallSurpriseDips
    \/ CallRecentSessions
    \/ CallAggregateSummary

SpecFrame == Init /\ [][NextFrame]_vars

\* C19: no Analytics Core function or chart-data function changes the table
\* it is given: across every call the caller's table keeps the same rows, the
\* same row order and the same columns (hour and date are added to copies).
C19_CallsLeaveTableUnchanged == [][out'.op # "idle" => df' = df]_vars

C19_Witness ==
    /\ out.op = "best_time_chart"
    /\ Len(df) = 3
    /\ df[1].timestamp_utc = 2
    /\ df[2].timestamp_utc = 25
    /\ df[3].timestamp_utc = 1
    /\ Len(out.val) = 2
    /\ out.val[1].hour = 1
    /\ \A i \in 1..Len(df) : DOMAIN df[i] = DOMAIN Row(1, "R-01", 300, "Clarity", "R-01", 100)

C19_WitnessDecay ==
    /\ out.op = "weakness_decay_chart"
    /\ Len(df) = 3
    /\ out.val.index = <<0, 1>>
    /\ out.val.columns = <<"Clarity", "Context">>
    /\ \A i \in 1..Len(df) : DOMAIN df[i] = DOMAIN Row(1, "R-01", 300, "Clarity", "R-01", 100)

\* ------------------------------------------ specification: the generator
\* datetime.now(), in hours: two clock readings an hour apart
NowHours == {WindowDays * HoursPerDay, WindowDays * HoursPerDay + 1}

\* df holds rows while the loops run and the returned frame at the end; out
\* is the frame of generate_events: where it is (pc), its argument and the
\* loop variables.
GenStart ==
    /\ out = Idle
    /\ df = <<>>
    /\ \E num_learners \in 0..MaxLearners, now \in NowHours :
          out' = [op |-> "generate_events", pc |-> "learner",
                  num_learners |-> num_learners,
                  start |-> now - WindowDays * HoursPerDay, learner |-> 0,
                  events_for_learner |-> 0, made |-> 0]
    /\ UNCHANGED df

\* for learner_id in learners: events_for_learner = random.randint(6, 20)
GenNextLearner ==
    /\ out.op = "generate_events"
    /\ out.pc = "learner"
    /\ out.learner < out.num_learners
    /\ \E drawn \in randint(MinEventsPerLearner, MaxEventsPerLearner) :
          out' = [out EXCEPT !.learner = @ + 1, !.events_for_learner = drawn,
                             !.made = 0,
                             !.pc = IF drawn > 0 THEN "event" ELSE "learner"]
    /\ UNCHANGED df

\* rows.append(build_event(learner_id, start))
GenBuildEvent ==
    /\ out.op = "generate_events"
    /\ out.pc = "event"
    /\ df' = Append(df, build_event(learner_id_of(out.learner), out.start, Len(df) + 1))
    /\ out' = [out EXCEPT !.made = @ + 1,
                          !.pc = IF out.made + 1 < out.events_for_learner
                                 THEN "event" ELSE "learner"]

\* frame = pd.DataFrame(rows); sort_values(timestamp_utc); reset_index.
\* Without rows the frame has no column and sort_values raises KeyError.
GenReturn ==
    /\ out.op = "generate_events"
    /\ out.pc = "learner"
    /\ out.learner = out.num_learners
    /\ IF "timestamp_utc" \in frame_columns(df)
       THEN /\ df' = sort_values_ts(df)
            /\ out' = [out EXCEPT !.pc = "done"]
       ELSE /\ out' = [out EXCEPT !.pc = "raised"]
            /\ UNCHANGED df

NextGen == GenStart \/ GenNextLearner \/ GenBuildEvent \/ GenReturn

SpecGen == Init /\ [][NextGen]_vars

Returned == out.op = "generate_events" /\ out.pc = "done"

EventsOf(learner_id) ==
    Cardinality({i \in 1..Len(df) : df[i].learner_id = learner_id})

\* C20: for num_learners n >= 1, generate_events returns a table with exactly
\* n distinct learner_id values, each learner with between 6 and 20 events,
\* so the row count lies between 6n and 20n.
C20_LearnersAndEventCounts ==
    Returned =>
        LET ids == {df[i].learner_id : i \in 1..Len(df)}
        IN  /\ Cardinality(ids) = out.num_learners
            /\ \A id \in ids : EventsOf(id) >= 6 /\ EventsOf(id) <= 20
            /\ Len(df) >= 6 * out.num_learners
            /\ Len(df) <= 20 * out.num_learners

C20_Witness ==
    /\ Returned
    /\ out.num_learners = 2
    /\ EventsOf("L-001") = 6
    /\ EventsOf("L-002") = 20
    /\ Len(df) = 26
    /\ \E i \in 1..(Len(df) - 1) :
          df[i].learner_id = "L-002" /\ df[i + 1].learner_id = "L-001"

\* C21: every table generate_events returns is non-empty and has every
\* column of REQUIRED_COLUMNS, so the loader's required-column check finds
\* nothing missing.
C21_ReturnedTablePassesColumnCheck ==
    Returned =>
        /\ df # <<>>
        /\ \A i \in 1..Len(REQUIRED_COLUMNS) : REQUIRED_COLUMNS[i] \in frame_columns(df)
        /\ \A i \in 1..Len(df) :
              \A j \in 1..Len(REQUIRED_COLUMNS) : REQUIRED_COLUMNS[j] \in DOMAIN df[i]
        /\ missing_columns(frame_columns(df)) = <<>>

C21_Witness ==
    /\ Returned
    /\ out.num_learners = 1
    /\ Len(df) = 6
    /\ "learner_role" \in frame_columns(df)
    /\ missing_columns(frame_columns(df)) = <<>>

\* generate_events(0) returns no table: it raises
C21_WitnessNoLearner ==
    /\ out.op = "generate_events"
    /\ out.pc = "raised"
    /\ out.num_learners = 0
    /\ df = <<>>

\* ------------------------- specification: runs of the generator, seeded
\* out carries, besides the call made last, the state of `random` (rng), the
\* values the stream of seed 42 is known to give for the learners' event
\* counts (known: they are fixed but unknown until first read), the number
\* of values other code drew (outside) and the summaries of the last run and
\* of the run before it (last, prev).  Two runs are made.
RngOf(o) == IF o.op = "idle" THEN ProcessRng ELSE o.rng

KnownOf(o) == IF o.op = "idle" THEN <<>> ELSE o.known

OutsideOf(o) == IF o.op = "idle" THEN 0 ELSE o.outside

PrevSummary(o) == IF o.op = "idle" THEN [k |-> "none"] ELSE o.prev

NoRun == [k |-> "none"]

\* what a run returned: per learner the number of rows, and the columns
RunSummary(o, d) ==
    IF o.op # "generate_events" THEN NoRun
    ELSE IF o.raised # "none" THEN [k |-> "raised", num_learners |-> o.num_learners]
    ELSE [k |-> "frame", num_learners |-> o.num_learners,
          events |-> [i \in 1..o.num_learners |->
                         Cardinality({j \in 1..Len(d) : d[j].learner_id = learner_id_of(i)})],
          columns |-> frame_columns(d)]

LastSummary(o) == IF o.op = "idle" THEN NoRun ELSE o.last

\* other code draws a value from `random`
DrawOutside ==
    /\ OutsideOf(out) < MaxOutsideDraws
    /\ out' = [op |-> "random.randint",
               rng |-> [RngOf(out) EXCEPT !.pos = @ + 1],
               known |-> KnownOf(out), outside |-> OutsideOf(out) + 1,
               last |-> LastSummary(out), prev |-> PrevSummary(out)]
    /\ UNCHANGED df

\* The counts a run can read: from a generator just seeded with 42 the
\* stream's values, those already known and any value for the others; from
\* any other state, values unknown in advance.
CountsReadable(num_learners, seeded, known) ==
    {counts \in [1..num_learners -> randint(MinEventsPerLearner, MaxEventsPerLearner)] :
        seeded = [by |-> "seed", seed |-> Seed, pos |-> 0] =>
            \A i \in 1..num_learners : i <= Len(known) => counts[i] = known[i]}

CallGenerateEvents ==
    /\ PrevSummary(out) = NoRun
    /\ \E num_learners \in 0..MaxSeedLearners, now \in NowHours :
          \E counts \in CountsReadable(num_learners,
                                       random_seed(RngOf(out), Seed), KnownOf(out)) :
           \E run \in {generate_events(num_learners, now, RngOf(out), counts)} :
             LET done == [op |-> "generate_events", num_learners |-> num_learners,
                          raised |-> run.raised, rng |-> run.rng,
                          known |-> IF run.seeded = [by |-> "seed", seed |-> Seed, pos |-> 0]
                                       /\ num_learners > Len(KnownOf(out))
                                    THEN counts ELSE KnownOf(out),
                          outside |-> OutsideOf(out)]
             IN  /\ df' = IF run.raised = "none" THEN run.frame ELSE <<>>
                 /\ out' = [op |-> done.op, num_learners |-> done.num_learners,
                            raised |-> done.raised, rng |-> done.rng,
                            known |-> done.known, outside |-> done.outside,
                            last |-> RunSummary(done, df'),
                            prev |-> LastSummary(out)]

NextSeed == DrawOutside \/ CallGenerateEvents

SpecSeed == Init /\ [][NextSeed]_vars

\* C22: two runs of generate_events with the same learner count return the
\* same number of events for each learner and the same columns, whatever was
\* drawn from the random generator before each run and whatever the clock
\* read.
C22_SameCountsAndColumns ==
    (/\ out.op = "generate_events"
     /\ out.prev.k = "frame"
     /\ out.last.k = "frame"
     /\ out.prev.num_learners = out.num_learners) =>
        /\ out.last.events = out.prev.events
        /\ out.last.columns = out.prev.columns

C22_Witness ==
    /\ out.op = "generate_events"
    /\ out.outside = 1
    /\ out.prev.k = "frame"
    /\ out.last.k = "frame"
    /\ out.num_learners = 1
    /\ out.prev.num_learners = 1
    /\ out.last.events = out.prev.events
    /\ out.last.events[1] = 20
    /\ Len(df) = 20

\* ------------------------------------------ specification: a render pass
\* Here df is the dataset load_data returned to main, and out the frame of
\* main: where the pass is (pc), what it was given (file, the two environment
\* settings, the learner_id query parameter), what it reported, and the
\* learner scope it resolved.
PassLearners == {"L-001", "L-002", NaNLabel}

\* AIRE_FIXED_LEARNER_ID: not set, set to nothing, to an id in the data or
\* to one that is not
FixedIds == {Unset, "", "L-001", "L-009"}

\* the learner_id query parameter of the link
QueryIds == {Unset, "L-002", "L-009"}

AllColumns == {REQUIRED_COLUMNS[i] : i \in 1..Len(REQUIRED_COLUMNS)} \cup {"learner_role"}

RECURSIVE DatasetsOf(_)
DatasetsOf(n) ==
    IF n = 0 THEN {<<>>}
    ELSE LET shorter == DatasetsOf(n - 1)
         IN  shorter \cup
             {Append(d, [Row(Len(d) + 1, "R-01", 400, "Clarity", "rec-01", 100)
                            EXCEPT !.learner_id = id]) :
                 d \in {x \in shorter : Len(x) = n - 1}, id \in PassLearners}

Files ==
    {File(FALSE, "ok", {}, FALSE, <<>>)}
    \cup {File(TRUE, read, {}, FALSE, <<>>) :
            read \in {"EmptyDataError", "ParserError", "OSError", "UnicodeDecodeError"}}
    \cup {File(TRUE, "ok", AllColumns \ {"evaluation_score"}, TRUE, d) : d \in DatasetsOf(1)}
    \cup {File(TRUE, "ok", AllColumns, FALSE, d) : d \in DatasetsOf(1) \ {<<>>}}
    \cup {File(TRUE, "ok", AllColumns, TRUE, d) : d \in DatasetsOf(MaxRows)}

PassStart ==
    /\ out = Idle
    /\ \E file \in Files, fixed \in FixedIds, allow \in BOOLEAN, query \in QueryIds :
          out' = [op |-> "main", pc |-> "load", file |-> file,
                  AIRE_FIXED_LEARNER_ID |-> fixed,
                  AIRE_ALLOW_LEARNER_SWITCH |-> allow, query |-> query,
                  reported |-> <<>>, loaded |-> FALSE, learners |-> <<>>,
                  fixed_id |-> Unset, selector_shown |-> FALSE,
                  selected_learner |-> Unset, learner_df |-> <<>>, calls |-> <<>>]
    /\ UNCHANGED df

\* df = load_data()
PassLoadData ==
    /\ out.op = "main"
    /\ out.pc = "load"
    /\ \E load \in {load_data(out.file)} :
          IF load.ended = "returned"
          THEN /\ df' = load.df
               /\ out' = [out EXCEPT !.pc = "scope", !.loaded = TRUE,
                                     !.reported = load.reported]
          ELSE /\ out' = [out EXCEPT !.pc = load.ended, !.reported = load.reported]
               /\ UNCHANGED df

\* learners = sorted(unique ids) ... selected_learner = fixed_id, or the
\* selector is shown
PassResolveLearner ==
    /\ out.op = "main"
    /\ out.pc = "scope"
    /\ UNCHANGED df
    /\ \E ids \in {series_unique(Column(df, "learner_id"))} :
          IF sorted_raises(ids)
          THEN out' = [out EXCEPT !.pc = "raised",
                          !.reported = Append(@, [level |-> "exception", text |-> "TypeError"])]
          ELSE \E learners \in {sorted_list(ids)} :
             IF learners = <<>>
             THEN out' = [out EXCEPT !.pc = "returned",
                             !.reported = Append(@, [level |-> "warning",
                                                     text |-> "No learners found in dataset."])]
             ELSE \E fixed_id \in {requested_id(out.AIRE_FIXED_LEARNER_ID, out.query,
                                                learners[1])} :
                IF ~in_list(fixed_id, learners)
                THEN out' = [out EXCEPT !.pc = "stopped", !.learners = learners,
                                !.fixed_id = fixed_id,
                                !.reported = Append(@, [level |-> "error",
                                                        text |-> "Learner not found in dataset."])]
                ELSE IF out.AIRE_ALLOW_LEARNER_SWITCH
                THEN out' = [out EXCEPT !.pc = "select", !.learners = learners,
                                !.fixed_id = fixed_id, !.selector_shown = TRUE]
                ELSE out' = [out EXCEPT !.pc = "analytics", !.learners = learners,
                                !.fixed_id = fixed_id, !.selected_learner = fixed_id]

\* st.sidebar.selectbox: the option the user has picked, fixed_id at first
PassSelectLearner ==
    /\ out.op = "main"
    /\ out.pc = "select"
    /\ \E i \in 1..Len(out.learners) :
          out' = [out EXCEPT !.pc = "analytics", !.selected_learner = out.learners[i]]
    /\ UNCHANGED df

\* learner_df = df[...]; summary = learner_summary(learner_df); the page
PassAnalytics ==
    /\ out.op = "main"
    /\ out.pc = "analytics"
    /\ out' = [out EXCEPT !.pc = "done",
                  !.learner_df = learner_subset(df, out.selected_learner),
                  !.calls = <<"learner_summary", "score_trend_chart",
                              "get_recommendations">>]
    /\ UNCHANGED df

NextPass ==
    \/ PassStart
    \/ PassLoadData
    \/ PassResolveLearner
    \/ PassSelectLearner
    \/ PassAnalytics

SpecPass == Init /\ [][NextPass]_vars

\* the failures of loading the claim lists, read off what is on disk
LoadFails(file) ==
    \/ ~file.exists
    \/ file.read # "ok"
    \/ \E i \in 1..Len(REQUIRED_COLUMNS) : REQUIRED_COLUMNS[i] \notin file.columns
    \/ ~file.timestamps_parse

\* C23: in a render pass, when loading fails (file missing, unreadable or
\* malformed, a required column missing, timestamps unparseable) an error is
\* reported and the pass halts: no analytics function and no chart builder
\* is invoked, and no dataset, partial or not, is returned to main.
C23_LoadFailureHalts ==
    (out.op = "main" /\ LoadFails(out.file)) =>
        /\ out.calls = <<>>
        /\ ~out.loaded
        /\ df = <<>>
        /\ out.pc \in {"load", "stopped", "raised"}
        /\ out.pc # "load" =>
              /\ Len(out.reported) = 1
              /\ out.reported[1].level \in {"error", "exception"}

C23_Witness ==
    /\ out.op = "main"
    /\ out.pc = "stopped"
    /\ out.file.exists
    /\ out.file.read = "ok"
    /\ out.file.rows # <<>>
    /\ "evaluation_score" \notin out.file.columns
    /\ out.reported = <<[level |-> "error", text |-> "Data schema mismatch"]>>
    /\ out.calls = <<>>

C23_WitnessLoaded ==
    /\ out.op = "main"
    /\ out.pc = "done"
    /\ ~LoadFails(out.file)
    /\ out.loaded
    /\ out.calls # <<>>
    /\ Len(out.learner_df) = 2
    /\ Len(df) = 3

DatasetLearners == {df[i].learner_id : i \in 1..Len(df)} \ {NaNLabel}

\* C25: in every render pass that reaches the analytics the selected learner
\* is one of the dataset's learners and the subset handed to the Analytics
\* Core is non-empty; a dataset with no learners, or a requested learner id
\* that is not in the dataset, ends the pass with a warning or an error
\* before any analytics function is called.
C25_AnalyticsGetNonEmptySubset ==
    (out.op = "main" /\ out.loaded) =>
        /\ out.pc = "done" =>
              /\ out.selected_learner \in DatasetLearners
              /\ out.learner_df # <<>>
        /\ (out.pc \notin {"scope", "select", "analytics"}
              /\ \/ DatasetLearners = {}
                 \/ /\ truthy(out.AIRE_FIXED_LEARNER_ID)
                    /\ out.AIRE_FIXED_LEARNER_ID \notin DatasetLearners
                 \/ /\ ~truthy(out.AIRE_FIXED_LEARNER_ID)
                    /\ out.query # Unset
                    /\ out.query \notin DatasetLearners) =>
              /\ out.calls = <<>>
              /\ out.reported # <<>>

\* C26: if AIRE_FIXED_LEARNER_ID is set, no learner selector is shown and the
\* learner analysed is the fixed learner, whatever AIRE_ALLOW_LEARNER_SWITCH
\* and the learner_id query parameter are.
C26_FixedLearnerLocksPass ==
    (out.op = "main" /\ truthy(out.AIRE_FIXED_LEARNER_ID)) =>
        /\ ~out.selector_shown
        /\ out.pc = "done" => out.selected_learner = out.AIRE_FIXED_LEARNER_ID

\* -------------------------------------- specification: weakness decay
\* hour 1 of day 0, of day 2 and of day 3: a day without events in between
DecayTimes == {1, 2 * HoursPerDay + 1, 3 * HoursPerDay + 1}

AddDecayRow ==
    /\ Len(df) < MaxRows
    /\ \E ts \in DecayTimes, weak \in Weaknesses :
          df' = Append(df, Row(ts, "R-01", 400, weak, "rec-01", 100))
    /\ out' = Idle

NextDecay == AddDecayRow \/ CallWeaknessDecayChart

SpecDecay == Init /\ [][NextDecay]_vars

\* the number of rows of df on calendar day date with the weakness
OccurrencesOn(date, weakness) ==
    Cardinality({i \in 1..Len(df) :
        dt_date(df[i].timestamp_utc) = date /\ df[i].primary_weakness = weakness})

RECURSIVE OccurrencesOver(_, _, _)
OccurrencesOver(from, to, weakness) ==
    IF from > to THEN 0
    ELSE OccurrencesOn(to, weakness) + OccurrencesOver(from, to - 1, weakness)

\* C24: in weakness_decay_chart's data the value for a weakness on a date is
\* the simple average of that weakness's daily counts over the trailing 7
\* calendar days ending at that date (a day without the weakness counts 0),
\* the window clipped to the first date of the data, so that the first
\* date's value is that date's raw count.
C24_TrailingSevenCalendarDays ==
    (out.op = "weakness_decay_chart" /\ df # <<>>) =>
        \A i \in 1..Len(out.val.index) :
            \A w \in DOMAIN out.val.rows[i] :
                LET date == out.val.index[i]
                    from == Max(out.val.index[1], date - 6)
                IN  out.val.rows[i][w].num * (date - from + 1) =
                        out.val.rows[i][w].den * OccurrencesOver(from, date, w)

\* ------------------------------------------------ bounce back, continued
\* the dips the loop looks at, other than the last event, that no later
\* event recovers
UnrecoveredDips ==
    {i \in 1..(Len(df) - 1) : IsDipAt(i) /\ \A j \in (i + 1)..Len(df) : ~AtLeastMeanAt(j)}

\* C27: bounce_back_prompts leaves out of its average every dip that no
\* later event scoring at least the mean follows, returns None when dips
\* exist and none of them recovers, and whenever it returns a number for a
\* subset of n rows the number is at least 1 and at most n - 1.
C27_UnrecoveredDipsLeftOut ==
    out.op = "bounce_back_prompts" =>
        /\ ((\E i \in 1..Len(df) : IsDipAt(i)) /\ RecoveredDips = {}) => out.val = None
        /\ IsNum(out.val) =>
              /\ out.val.num >= out.val.den
              /\ out.val.num <= (Len(df) - 1) * out.val.den
              /\ RecoveredDips # {}
              /\ out.val.num * (Cardinality(RecoveredDips) + Cardinality(UnrecoveredDips))
                    >= out.val.den * DistanceTotal(Len(df))
              /\ UnrecoveredDips # {} =>
                    out.val.num * Cardinality(RecoveredDips) =
                        out.val.den * DistanceTotal(Len(df))

C27_Witness ==
    /\ out.op = "bounce_back_prompts"
    /\ Len(df) = 4
    /\ df[1].evaluation_score = 100
    /\ df[2].evaluation_score = 500
    /\ df[3].evaluation_score = 100
    /\ df[4].evaluation_score = 100
    /\ UnrecoveredDips = {3}
    /\ out.val = [k |-> "num", num |-> 1, den |-> 1]

C27_WitnessNoneRecovers ==
    /\ out.op = "bounce_back_prompts"
    /\ Len(df) = 3
    /\ df[1].evaluation_score = 500
    /\ df[2].evaluation_score = 100
    /\ df[3].evaluation_score = 100
    /\ UnrecoveredDips = {2}
    /\ out.val = None

\* ------------------- specification: resource effect, timestamps missing
\* Every row has a resource_id; its timestamp cell may be missing.
AddEffectGapsRow ==
    /\ Len(df) < MaxRows
    /\ \E ts \in (1..MaxTs) \cup {NaT}, res \in EffectResources, score \in EffectScores :
          df' = Append(df, Row(ts, res, score, "Clarity", "rec-01", 100))
    /\ out' = Idle

NextEffectGaps == AddEffectGapsRow \/ CallResourceEffect

SpecEffectGaps == Init /\ [][NextEffectGaps]_vars

\* the resources first used at the earliest timestamp of the subset
EarliestResources ==
    {r \in UsedResources :
        \E i \in 1..Len(df) :
            /\ df[i].resource_id = r
            /\ df[i].timestamp_utc # NaT
            /\ \A j \in 1..Len(df) :
                  df[j].timestamp_utc # NaT => df[j].timestamp_utc >= df[i].timestamp_utc}

OneRowPerResource ==
    /\ out.val.raised = "none"
    /\ Len(out.val.rows) = Cardinality(UsedResources)
    /\ \A r \in UsedResources : Cardinality(EffectRowsOf(r)) = 1
    /\ EarliestResources # {}
    /\ \A r \in EarliestResources :
          \A k \in EffectRowsOf(r) :
              IsNull(out.val.rows[k].before) /\ IsNull(out.val.rows[k].delta)

\* C28 as stated: for every non-empty subset in which every row has a
\* resource_id, resource_effect returns exactly one row per distinct
\* resource_id, and the row of each resource first used at the subset's
\* earliest timestamp (at least one row) has a null before and a null delta.
C28_OneRowPerResource ==
    (out.op = "resource_effect" /\ df # <<>>) => OneRowPerResource

\* C28, amended: the same for every non-empty subset in which every row has
\* a resource_id and a timestamp.
C28_OneRowPerTimedResource ==
    (/\ out.op = "resource_effect"
     /\ df # <<>>
     /\ \A i \in 1..Len(df) : df[i].timestamp_utc # NaT) => OneRowPerResource

C28_Witness ==
    /\ out.op = "resource_effect"
    /\ Len(df) = 3
    /\ df[1].resource_id = "R-02" /\ df[1].timestamp_utc = 2
    /\ df[2].resource_id = "R-01" /\ df[2].timestamp_utc = 1
    /\ df[3].resource_id = "R-01" /\ df[3].timestamp_utc = 3
    /\ Len(out.val.rows) = 2
    /\ EarliestResources = {"R-01"}
    /\ out.val.rows[1].resource = "R-02"
    /\ IsNum(out.val.rows[1].delta)
    /\ out.val.rows[2].resource = "R-01"
    /\ IsNull(out.val.rows[2].delta)

\* a resource whose rows all lack a timestamp is skipped
C28_WitnessSkipped ==
    /\ out.op = "resource_effect"
    /\ Len(df) = 2
    /\ df[1].resource_id = "R-01" /\ df[1].timestamp_utc = 1
    /\ df[2].resource_id = "R-02" /\ df[2].timestamp_utc = NaT
    /\ out.val.raised = "none"
    /\ Len(out.val.rows) = 1

\* ------------------ specification: generated events, whatever the draws
\* The values random returns are not known here, so every event is built
\* from any values in the ranges of its calls: scores from the ends of 1..5,
\* any resource, any of the learners.  Events are appended in the order of
\* their timestamps.
MaxDrawnEvents == 2

DrawnScores == {1, 5}

DrawnLearners == {learner_id_of(1), learner_id_of(2)}

DrawnBuildEvent ==
    /\ Len(df) < MaxDrawnEvents
    /\ \E learner_id \in DrawnLearners, resource \in 1..Len(ResourceIDs),
          clarity \in DrawnScores, context \in DrawnScores,
          constraints \in DrawnScores :
          df' = Append(df, build_event_drawn(learner_id, 0,
                               [resource |-> resource, clarity |-> clarity,
                                context |-> context,
                                constraints |-> constraints,
                                chars |-> 50, hours |-> Len(df) + 1]))
    /\ out' = Idle

\* learner_df = df[df.learner_id == selected_learner]; acted_on_feedback(learner_df)
CallActedOnLearner ==
    /\ \E selected_learner \in DrawnLearners :
          out' = [op |-> "acted_on_feedback",
                  args |-> [selected_learner |-> selected_learner],
                  val |-> acted_on_feedback(learner_subset(df, selected_learner))]
    /\ UNCHANGED df

NextDrawn == DrawnBuildEvent \/ CallActedOnLearner

SpecDrawn == Init /\ [][NextDrawn]_vars

SubScore(row, dimension) ==
    CASE dimension = "Clarity" -> row.clarity_score
      [] dimension = "Context" -> row.context_score
      [] dimension = "Constraints" -> row.constraints_score

LowestSubScore(row) ==
    CHOOSE m \in {row.clarity_score, row.context_score, row.constraints_score} :
        /\ m <= row.clarity_score
        /\ m <= row.context_score
        /\ m <= row.constraints_score

\* C29: in every generated dataset each event's primary_weakness is a rubric
\* dimension whose score is the lowest of the event's three sub-scores and
\* its recommended_resource_id is WEAKNESS_MAP[primary_weakness]; no
\* WEAKNESS_MAP value is a ResourceIDs value, and acted_on_feedback returns
\* zero records for every learner subset.
C29_WeaknessIsLowestAndNoneActedOn ==
    /\ \A i \in 1..Len(df) :
          /\ df[i].primary_weakness \in DOMAIN WEAKNESS_MAP
          /\ SubScore(df[i], df[i].primary_weakness) = LowestSubScore(df[i])
          /\ df[i].recommended_resource_id = WEAKNESS_MAP[df[i].primary_weakness]
    /\ \A w \in DOMAIN WEAKNESS_MAP, k \in 1..Len(ResourceIDs) :
          WEAKNESS_MAP[w] # ResourceIDs[k]
    /\ out.op = "acted_on_feedback" => out.val = Table(<<>>, <<>>)

\* the loop of acted_on_feedback compared a pair of one learner's events,
\* the first of them weakest in its last dimension only
C29_Witness ==
    /\ out.op = "acted_on_feedback"
    /\ Len(learner_subset(df, out.args.selected_learner)) = 2
    /\ df[1].primary_weakness = "Constraints"
    /\ df[1].clarity_score = 5
    /\ df[2].primary_weakness = "Clarity"
    /\ df[2].context_score = 1
    /\ out.val.rows = <<>>

\* ------------------- specification: goal progress, the sliders moved
\* Moving a slider reruns main, which calls goal_progress again on the same
\* learner subset; the frame keeps the call of the pass before.
NoCall ==
    [called |-> FALSE,
     args |-> [target_score |-> 0, target_interactions |-> 0],
     val |-> [current_avg |-> FracOfInt(0), remaining |-> 0]]

RerunGoalProgress ==
    /\ \E target_score \in TargetScores, target_interactions \in 0..MaxTarget :
          out' = [op |-> "goal_progress",
                  args |-> [target_score |-> target_score,
                            target_interactions |-> target_interactions],
                  val |-> goal_progress(df, target_score, target_interactions),
                  before |-> IF out.op = "goal_progress"
                             THEN [called |-> TRUE, args |-> out.args,
                                   val |-> out.val]
                             ELSE NoCall]
    /\ UNCHANGED df

NextGoalRerun == AddGoalRow \/ RerunGoalProgress

SpecGoalRerun == Init /\ [][NextGoalRerun]_vars

\* C30: the pair returned by goal_progress does not depend on target_score:
\* two calls on the same subset with the same target_interaction_count
\* return the same (current_avg, remaining), whatever their target_score.
C30_TargetScoreIgnored ==
    (/\ out.op = "goal_progress"
     /\ out.before.called
     /\ out.before.args.target_interactions = out.args.target_interactions)
        => out.val = out.before.val

C30_Witness ==
    /\ out.op = "goal_progress"
    /\ out.before.called
    /\ out.before.args.target_interactions = 2
    /\ out.args.target_interactions = 2
    /\ out.before.args.target_score = 400
    /\ out.args.target_score = 420
    /\ Len(df) = 3
    /\ out.val.current_avg = [k |-> "num", num |-> 450, den |-> 1]
    /\ out.before.val = out.val

\* the same with an empty window
C30_WitnessEmptyWindow ==
    /\ out.op = "goal_progress"
    /\ out.before.called
    /\ out.before.args.target_score # out.args.target_score
    /\ out.before.args.target_interactions = 0
    /\ out.args.target_interactions = 0
    /\ df # <<>>
    /\ out.val.remaining = 0

====
